---- MODULE Spec2Model ----
(***************************************************************************)
(* Lock-file normalisation, dependency-tree construction and duplicate     *)
(* detection of dependency-optimizer.                                      *)
(*                                                                         *)
(* Strings are sequences of tokens: the characters the code inspects       *)
(* ("@", "/", ".", "^", "~") are tokens of their own, and every other      *)
(* token stands for a run of ordinary characters, so that split, join,     *)
(* startsWith and the regular expressions are computed as the code         *)
(* computes them.  JavaScript objects and Maps are sequences of            *)
(* [k, v] records in insertion order.                                      *)
(***************************************************************************)
EXTENDS Integers, Sequences, FiniteSets, TLC

\* ------------------------------------------------------------------ bounds
MaxDepthBound == 3
MaxEdges == 3
MaxDetectCalls == 2
MaxParts == 3

\* ----------------------------------------------------------------- strings
Range(s) == {s[i] : i \in 1..Len(s)}

Undefined == <<"undefined">>

StartsWith(s, tok) == Len(s) > 0 /\ s[1] = tok

Substring1(s) == IF Len(s) > 0 THEN Tail(s) ELSE s

\* index of the first occurrence of tok in s at or after i, 0 when there is none
RECURSIVE IndexFrom(_, _, _)
IndexFrom(s, tok, i) ==
    IF i > Len(s) THEN 0
    ELSE IF s[i] = tok THEN i
    ELSE IndexFrom(s, tok, i + 1)

RECURSIVE LastIndexOf(_, _, _)
LastIndexOf(s, tok, i) ==
    IF i < 1 THEN 0
    ELSE IF s[i] = tok THEN i
    ELSE LastIndexOf(s, tok, i - 1)

\* s.split(tok): the pieces between the occurrences of tok
RECURSIVE Split(_, _)
Split(s, tok) ==
    LET i == IndexFrom(s, tok, 1)
    IN  IF i = 0 THEN <<s>>
        ELSE <<SubSeq(s, 1, i - 1)>> \o Split(SubSeq(s, i + 1, Len(s)), tok)

\* parts[i] of a JavaScript array (0-based), undefined past its end
At(parts, i) == IF i + 1 <= Len(parts) THEN parts[i + 1] ELSE Undefined

\* names.join(sep)
RECURSIVE Join(_, _)
Join(names, sep) ==
    IF Len(names) = 0 THEN <<>>
    ELSE IF Len(names) = 1 THEN names[1]
    ELSE names[1] \o <<sep>> \o Join(Tail(names), sep)

\* -------------------------------------------------------- objects and Maps
Keys(m) == [i \in 1..Len(m) |-> m[i].k]

Has(m, key) == \E i \in 1..Len(m) : m[i].k = key

Get(m, key) == m[CHOOSE i \in 1..Len(m) : m[i].k = key].v

\* m[key] = val / m.set(key, val): an existing key keeps its position
Put(m, key, val) ==
    IF Has(m, key)
    THEN [i \in 1..Len(m) |-> IF m[i].k = key THEN [k |-> key, v |-> val] ELSE m[i]]
    ELSE Append(m, [k |-> key, v |-> val])

\* { ...a, ...b }
RECURSIVE Spread(_, _)
Spread(a, b) ==
    IF Len(b) = 0 THEN a
    ELSE Spread(Put(a, b[1].k, b[1].v), Tail(b))

\* a nullable value: <<>> is null/undefined, <<x>> is x
Null == <<>>

Some(x) == <<x>>

ButLast(s) == SubSeq(s, 1, Len(s) - 1)

\* ---------------------------------------------------------------- tokens
At_ == "@"
Slash == "/"
Dot == "."
Caret == "^"
Tilde == "~"
Arrow == "->"

\* `${name}@${version}`
CompositeKey(name, version) == name \o <<At_>> \o version

\* a matcher that reads "~" as it reads "^"
SatisfiesVersion_MajorOnly(version, range) ==
    IF StartsWith(range, Caret) \/ StartsWith(range, Tilde)
    THEN At(Split(version, Dot), 0) = At(Split(Substring1(range), Dot), 0)
    ELSE version = range

\* -------------------------------------------------- bun: BunLockParser
\* satisfiesVersion(version, range)
SatisfiesVersion(version, range) ==
    IF StartsWith(range, Caret)
    THEN At(Split(version, Dot), 0) = At(Split(Substring1(range), Dot), 0)
    ELSE IF StartsWith(range, Tilde)
    THEN /\ At(Split(Substring1(range), Dot), 0) = At(Split(version, Dot), 0)
         /\ At(Split(Substring1(range), Dot), 1) = At(Split(version, Dot), 1)
    ELSE version = range

\* fullVersion.match(/^(.+)@([^@]+)$/): <<name, version>>, or Null
MatchNameVersion(fullVersion) ==
    LET i == LastIndexOf(fullVersion, At_, Len(fullVersion))
    IN  IF i >= 2 /\ i < Len(fullVersion)
        THEN Some([name |-> SubSeq(fullVersion, 1, i - 1),
                   version |-> SubSeq(fullVersion, i + 1, Len(fullVersion))])
        ELSE Null

\* a JSON value that is a number, not a string: it has no match method, so
\* fullVersion.match(...) throws a TypeError
NumberValue == <<"<number>">>

IsString(value) == value # NumberValue

\* parsePackageArray(packageKey, packageArray) throws instead of returning
ParsePackageArrayThrows(packageArray) ==
    /\ packageArray.isArray
    /\ Len(packageArray.items) >= 3
    /\ ~IsString(packageArray.items[1])

\* parsePackageArray(packageKey, packageArray); a raw value is
\* [isArray, items]; items = <<fullVersion, resolution, dependencyInfo, ...>>
\* and dependencyInfo = [dependencies |-> map]
ParsePackageArray(packageArray) ==
    IF ~packageArray.isArray \/ Len(packageArray.items) < 3 THEN Null
    ELSE LET m == MatchNameVersion(packageArray.items[1])
         IN  IF m = Null THEN Null
             ELSE Some([name |-> m[1].name,
                        version |-> m[1].version,
                        dependencies |-> packageArray.items[3].dependencies])

RECURSIVE NormalizeBunPackages(_, _)
NormalizeBunPackages(rawPackages, acc) ==
    IF Len(rawPackages) = 0 THEN acc
    ELSE LET packageInfo == ParsePackageArray(rawPackages[1].v)
         IN  NormalizeBunPackages(
                 Tail(rawPackages),
                 IF packageInfo # Null
                 THEN Put(acc, rawPackages[1].k, packageInfo[1])
                 ELSE acc)

\* normalizeBunLockData(rawData): workspaces are copied with their four
\* dependency sections, packages are parsed entry by entry
NormalizeBunLockData(rawData) ==
    [workspaces |-> rawData.workspaces,
     packages |-> NormalizeBunPackages(rawData.packages, <<>>)]

\* normalizeBunLockData(rawData) throws: it calls parsePackageArray on
\* every entry and catches nothing
NormalizeBunLockDataThrows(rawData) ==
    \E i \in 1..Len(rawData.packages) : ParsePackageArrayThrows(rawData.packages[i].v)

\* normalized.workspaces[''] || Object.values(normalized.workspaces)[0]
BunRootWorkspace(normalized) ==
    IF Has(normalized.workspaces, <<>>) THEN Some(Get(normalized.workspaces, <<>>))
    ELSE IF Len(normalized.workspaces) > 0 THEN Some(normalized.workspaces[1].v)
    ELSE Null

\* findPackageInLock(packageName, versionRange, parentPath)
BunEntryMatches(packageInfo, packageName, versionRange) ==
    packageInfo.name = packageName /\ SatisfiesVersion(packageInfo.version, versionRange)

BunFindPackageInLock(lockData, packageName, versionRange, parentPath) ==
    LET packages == lockData.packages
        contextPath == parentPath[Len(parentPath)] \o <<Slash>> \o packageName
        hits == {i \in 1..Len(packages) :
                    BunEntryMatches(packages[i].v, packageName, versionRange)}
    IN  IF /\ Len(parentPath) > 0
           /\ Has(packages, contextPath)
           /\ BunEntryMatches(Get(packages, contextPath), packageName, versionRange)
        THEN Some(Get(packages, contextPath))
        ELSE IF /\ Has(packages, packageName)
                /\ BunEntryMatches(Get(packages, packageName), packageName, versionRange)
        THEN Some(Get(packages, packageName))
        ELSE IF hits # {}
        THEN Some(packages[CHOOSE i \in hits : \A j \in hits : i <= j].v)
        ELSE Null

\* the two early returns of buildNodeRecursively
AlreadyProcessed(pathKey, processedPaths) == pathKey \in processedPaths

\* a depth check that lets one more level through
DepthExceeded_OffByOne(depth, maxDepth) == depth > maxDepth + 1

DepthExceeded(depth, maxDepth) == depth > maxDepth

\* a circularity check that looks at the last ancestor only, and one that
\* never fires
IsCircular_ParentOnly(currentPath, depName) ==
    Len(currentPath) > 0 /\ depName = currentPath[Len(currentPath)]

IsCircular_Never(currentPath, depName) == FALSE

\* currentPath.includes(depName)
IsCircular(currentPath, depName) == depName \in Range(currentPath)

\* an index that keeps only the last node of a composite key
Register_Overwrite(allNodes, compositeKey, id) == Put(allNodes, compositeKey, <<id>>)

\* allNodes.get(compositeKey).push(node), creating the list when absent
Register(allNodes, compositeKey, id) ==
    Put(allNodes, compositeKey,
        Append(IF Has(allNodes, compositeKey) THEN Get(allNodes, compositeKey) ELSE <<>>, id))

\* the node object of the bun and pnpm parsers
NewNode(packageName, version, depth, currentPath, isDevDependency) ==
    [name |-> packageName,
     version |-> version,
     children |-> <<>>,
     isRoot |-> depth = 0,
     depth |-> depth,
     path |-> ButLast(currentPath),
     isDirect |-> depth = 1,
     isDevDependency |-> isDevDependency,
     size |-> Null]

\* st = [nodes, allNodes, processedPaths]: the node objects created so far (a
\* node is referred to by its index), the allNodes Map and the processed set
EmptyBuild == [nodes |-> <<>>, allNodes |-> <<>>, processedPaths |-> {}]

\* node.children.push(childNode) when childNode is not null
PushChild(st, parent, child) ==
    IF child # 0 THEN [st EXCEPT !.nodes[parent].children = Append(@, child)] ELSE st

RECURSIVE BunBuildNodeRecursively(_, _, _, _, _, _, _, _)
RECURSIVE BunBuildChildren(_, _, _, _, _, _, _, _)
BunBuildNodeRecursively(lockData, packageName, versionRange, currentPath, depth, isDevDependency, st, maxDepth) ==
    LET pathKey == Join(currentPath, Arrow)
    IN  IF AlreadyProcessed(pathKey, st.processedPaths) \/ DepthExceeded(depth, maxDepth)
        THEN [st |-> st, node |-> 0]
        ELSE
        LET st1 == [st EXCEPT !.processedPaths = @ \cup {pathKey}]
            found == BunFindPackageInLock(lockData, packageName, versionRange, ButLast(currentPath))
        IN  IF found = Null THEN [st |-> st1, node |-> 0]
            ELSE
            LET packageInfo == found[1]
                id == Len(st1.nodes) + 1
                node == NewNode(packageName, packageInfo.version, depth, currentPath, isDevDependency)
                st2 == [st1 EXCEPT
                          !.nodes = Append(@, node),
                          !.allNodes = Register(@, CompositeKey(packageName, packageInfo.version), id)]
            IN  [st |-> BunBuildChildren(lockData, packageInfo.dependencies, id, currentPath,
                                         depth, isDevDependency, st2, maxDepth),
                 node |-> id]

\* the loop over Object.entries(packageInfo.dependencies)
BunBuildChildren(lockData, deps, id, currentPath, depth, isDevDependency, st, maxDepth) ==
    IF Len(deps) = 0 THEN st
    ELSE IF IsCircular(currentPath, deps[1].k)
    THEN BunBuildChildren(lockData, Tail(deps), id, currentPath, depth, isDevDependency, st, maxDepth)
    ELSE LET r == BunBuildNodeRecursively(lockData, deps[1].k, deps[1].v,
                                          Append(currentPath, deps[1].k), depth + 1,
                                          isDevDependency, st, maxDepth)
         IN  BunBuildChildren(lockData, Tail(deps), id, currentPath, depth, isDevDependency,
                              PushChild(r.st, id, r.node), maxDepth)

\* the synthetic root node
RootNode(name, children) ==
    [name |-> name, version |-> <<"1", Dot, "0", Dot, "0">>, children |-> children,
     isRoot |-> TRUE, depth |-> 0, path |-> <<>>]

\* the loop over Object.entries(allDirectDeps) of buildDependencyTree:
\* acc = [st, children]
RECURSIVE BunBuildDirect(_, _, _, _, _, _)
BunBuildDirect(lockData, allDirectDeps, devDeps, acc, maxDepth, i) ==
    IF i > Len(allDirectDeps) THEN acc
    ELSE LET depName == allDirectDeps[i].k
             r == BunBuildNodeRecursively(lockData, depName, allDirectDeps[i].v, <<depName>>, 1,
                                          depName \in devDeps, acc.st, maxDepth)
         IN  BunBuildDirect(lockData, allDirectDeps, devDeps,
                            [st |-> r.st,
                             children |-> IF r.node # 0 THEN Append(acc.children, r.node)
                                          ELSE acc.children],
                            maxDepth, i + 1)

\* { ...dependencies, ...(includeDev ? devDependencies : {}), ...peer, ...optional }
BunAllDirectDeps(rootWorkspace, includeDevDependencies) ==
    Spread(Spread(Spread(rootWorkspace.dependencies,
                         IF includeDevDependencies THEN rootWorkspace.devDependencies ELSE <<>>),
                  rootWorkspace.peerDependencies),
           rootWorkspace.optionalDependencies)

\* buildDependencyTree(maxDepth, includeDevDependencies) once the guard passed:
\* the tree is [root, nodes, allNodes]
BunBuildDependencyTree(lockData, rootWorkspace, maxDepth, includeDevDependencies) ==
    LET r == BunBuildDirect(lockData,
                            BunAllDirectDeps(rootWorkspace, includeDevDependencies),
                            Range(Keys(rootWorkspace.devDependencies)),
                            [st |-> EmptyBuild, children |-> <<>>], maxDepth, 1)
    IN  [root |-> RootNode(IF rootWorkspace.name # <<>> THEN rootWorkspace.name ELSE <<"root">>,
                           r.children),
         nodes |-> r.st.nodes,
         allNodes |-> r.st.allNodes]

\* ------------------------------------------------ pnpm: PnpmLockParser
\* x || y on strings: an absent or empty string is falsy
OrElse(opt, default) == IF opt # Null /\ opt[1] # <<>> THEN opt[1] ELSE default

\* the packages loop of normalizePnpmLockData: name and version default to
\* the pieces of the key around its first "@"
RECURSIVE NormalizePnpmPackages(_, _)
NormalizePnpmPackages(rawPackages, acc) ==
    IF Len(rawPackages) = 0 THEN acc
    ELSE LET key == rawPackages[1].k
             pkg == rawPackages[1].v
             parts == Split(key, At_)
         IN  NormalizePnpmPackages(
                 Tail(rawPackages),
                 Put(acc, key,
                     [name |-> OrElse(pkg.name, At(parts, 0)),
                      version |-> OrElse(pkg.version,
                                         IF Len(parts) >= 2 /\ parts[2] # <<>>
                                         THEN parts[2]
                                         ELSE <<"0", Dot, "0", Dot, "0">>),
                      dependencies |-> pkg.dependencies,
                      peerDependencies |-> pkg.peerDependencies]))

\* normalizePnpmLockData(rawData): snapshots: rawData.snapshots || {}
NormalizePnpmLockData(rawData) ==
    [importers |-> rawData.importers,
     packages |-> NormalizePnpmPackages(rawData.packages, <<>>),
     snapshots |-> IF rawData.snapshots # Null THEN rawData.snapshots ELSE Some(<<>>)]

\* importers['.'] || importers[''] || Object.values(importers)[0]
PnpmRootImporter(normalized) ==
    IF Has(normalized.importers, <<Dot>>) THEN Some(Get(normalized.importers, <<Dot>>))
    ELSE IF Has(normalized.importers, <<>>) THEN Some(Get(normalized.importers, <<>>))
    ELSE IF Len(normalized.importers) > 0 THEN Some(normalized.importers[1].v)
    ELSE Null

\* collectAllDirectDependencies(includeDevDependencies)
CollectAllDirectDependencies(rootImporter, includeDevDependencies) ==
    Spread(rootImporter.dependencies,
           IF includeDevDependencies THEN rootImporter.devDependencies ELSE <<>>)

\* findPackageInLock(packageName, versionRange, parentPath) of the pnpm parser
PnpmFindPackageInLock(lockData, packageName, versionRange) ==
    LET packages == lockData.packages
        exactKey == CompositeKey(packageName, versionRange)
        hits == {i \in 1..Len(packages) : packages[i].v.name = packageName}
    IN  IF Has(packages, exactKey) THEN Some(Get(packages, exactKey))
        ELSE IF hits # {}
        THEN Some(packages[CHOOSE i \in hits : \A j \in hits : i <= j].v)
        ELSE Null

\* key.startsWith(prefix)
IsPrefix(prefix, key) ==
    Len(prefix) <= Len(key) /\ SubSeq(key, 1, Len(prefix)) = prefix

\* findSnapshotKey(packageName, version)
FindSnapshotKey(snapshots, packageName, version) ==
    LET exactKey == CompositeKey(packageName, version)
        hits == {i \in 1..Len(snapshots) : IsPrefix(packageName \o <<At_>>, snapshots[i].k)}
    IN  IF Has(snapshots, exactKey) THEN Some(exactKey)
        ELSE IF hits # {}
        THEN Some(snapshots[CHOOSE i \in hits : \A j \in hits : i <= j].k)
        ELSE Null

\* the dependency edges buildNodeRecursively follows from a located package:
\* the snapshot's when the lock data has a snapshots table, else the package's own
PnpmChildDeps(lockData, packageName, packageInfo) ==
    IF lockData.snapshots # Null
    THEN LET snapshotKey == FindSnapshotKey(lockData.snapshots[1], packageName, packageInfo.version)
         IN  IF snapshotKey # Null
             THEN Get(lockData.snapshots[1], snapshotKey[1]).dependencies
             ELSE <<>>
    ELSE Spread(packageInfo.dependencies, packageInfo.peerDependencies)

RECURSIVE PnpmBuildNodeRecursively(_, _, _, _, _, _, _, _)
RECURSIVE PnpmBuildChildren(_, _, _, _, _, _, _, _)
PnpmBuildNodeRecursively(lockData, packageName, versionRange, currentPath, depth, isDevDependency, st, maxDepth) ==
    LET pathKey == Join(currentPath, Arrow)
    IN  IF AlreadyProcessed(pathKey, st.processedPaths) \/ DepthExceeded(depth, maxDepth)
        THEN [st |-> st, node |-> 0]
        ELSE
        LET st1 == [st EXCEPT !.processedPaths = @ \cup {pathKey}]
            found == PnpmFindPackageInLock(lockData, packageName, versionRange)
        IN  IF found = Null THEN [st |-> st1, node |-> 0]
            ELSE
            LET packageInfo == found[1]
                id == Len(st1.nodes) + 1
                node == NewNode(packageName, packageInfo.version, depth, currentPath, isDevDependency)
                st2 == [st1 EXCEPT
                          !.nodes = Append(@, node),
                          !.allNodes = Register(@, CompositeKey(packageName, packageInfo.version), id)]
            IN  [st |-> PnpmBuildChildren(lockData, PnpmChildDeps(lockData, packageName, packageInfo),
                                          id, currentPath, depth, isDevDependency, st2, maxDepth),
                 node |-> id]

PnpmBuildChildren(lockData, deps, id, currentPath, depth, isDevDependency, st, maxDepth) ==
    IF Len(deps) = 0 THEN st
    ELSE IF IsCircular(currentPath, deps[1].k)
    THEN PnpmBuildChildren(lockData, Tail(deps), id, currentPath, depth, isDevDependency, st, maxDepth)
    ELSE LET r == PnpmBuildNodeRecursively(lockData, deps[1].k, deps[1].v,
                                           Append(currentPath, deps[1].k), depth + 1,
                                           isDevDependency, st, maxDepth)
         IN  PnpmBuildChildren(lockData, Tail(deps), id, currentPath, depth, isDevDependency,
                               PushChild(r.st, id, r.node), maxDepth)

\* the loop over Object.entries(allDirectDeps) of the pnpm buildDependencyTree;
\* a direct dependency is looked up by depInfo.version
RECURSIVE PnpmBuildDirect(_, _, _, _, _, _)
PnpmBuildDirect(lockData, allDirectDeps, devDeps, acc, maxDepth, i) ==
    IF i > Len(allDirectDeps) THEN acc
    ELSE LET depName == allDirectDeps[i].k
             r == PnpmBuildNodeRecursively(lockData, depName, allDirectDeps[i].v.version,
                                           <<depName>>, 1, depName \in devDeps, acc.st, maxDepth)
         IN  PnpmBuildDirect(lockData, allDirectDeps, devDeps,
                             [st |-> r.st,
                              children |-> IF r.node # 0 THEN Append(acc.children, r.node)
                                           ELSE acc.children],
                             maxDepth, i + 1)

PnpmBuildDependencyTree(lockData, rootImporter, maxDepth, includeDevDependencies) ==
    LET r == PnpmBuildDirect(lockData,
                             CollectAllDirectDependencies(rootImporter, includeDevDependencies),
                             Range(Keys(rootImporter.devDependencies)),
                             [st |-> EmptyBuild, children |-> <<>>], maxDepth, 1)
    IN  [root |-> RootNode(<<"root">>, r.children),
         nodes |-> r.st.nodes,
         allNodes |-> r.st.allNodes]

\* ------------------------------------- npm: DependencyTreeBuilder
\* loadRootDependencies(projectPath, includeDev): the names, in insertion order
LoadRootDependencies(packageJson, includeDev) ==
    Keys(Spread(Spread(Spread(packageJson.dependencies,
                              IF includeDev THEN packageJson.devDependencies ELSE <<>>),
                       packageJson.peerDependencies),
                packageJson.optionalDependencies))

\* fullName.match(/^(@[^/]+\/[^/]+)/): the scope and the name after it
ScopedMatch(fullName) ==
    LET slash == IndexFrom(fullName, Slash, 1)
        next == IndexFrom(fullName, Slash, slash + 1)
        last == IF next = 0 THEN Len(fullName) ELSE next - 1
    IN  IF slash >= 3 /\ last > slash THEN Some(SubSeq(fullName, 1, last)) ELSE Null

\* the package name parseNpmV2Dependencies reads from a packages key, Null
\* when the key is skipped
NpmV2PackageName(packagePath) ==
    IF packagePath = <<>> \/ packagePath = <<Dot>> THEN Null
    ELSE IF ~(Len(packagePath) >= 3 /\ packagePath[1] = "node_modules" /\ packagePath[2] = Slash)
    THEN Null
    ELSE LET fullName == SubSeq(packagePath, 3, Len(packagePath))
         IN  IF StartsWith(fullName, At_)
             THEN IF ScopedMatch(fullName) # Null THEN ScopedMatch(fullName) ELSE Some(fullName)
             ELSE Some(Split(fullName, Slash)[1])

\* NpmLockParser.parseV2Packages: the name and parentPath recorded for a
\* packages key, Null when the key is skipped
ParseV2Entry(packagePath) ==
    IF packagePath = <<>> \/ packagePath = <<Dot>> THEN Null
    ELSE IF ~(Len(packagePath) >= 3 /\ packagePath[1] = "node_modules" /\ packagePath[2] = Slash)
    THEN Null
    ELSE LET fullName == SubSeq(packagePath, 3, Len(packagePath))
             pathParts == Tail(Split(packagePath, Slash))
             scopedMatch == ScopedMatch(fullName)
         IN  IF StartsWith(fullName, At_)
             THEN IF scopedMatch # Null
                  THEN Some([name |-> scopedMatch[1],
                             parentPath |->
                                 SelectSeq(Split(SubSeq(fullName, Len(scopedMatch[1]) + 1,
                                                        Len(fullName)), Slash),
                                           LAMBDA p : p # <<>>)])
                  ELSE Some([name |-> fullName, parentPath |-> <<>>])
             ELSE Some([name |-> pathParts[1], parentPath |-> Tail(pathParts)])

\* parseV2Packages(packages, result): result[packagePath] = depInfo
RECURSIVE ParseV2Packages(_, _)
ParseV2Packages(packages, result) ==
    IF Len(packages) = 0 THEN result
    ELSE LET entry == ParseV2Entry(packages[1].k)
         IN  ParseV2Packages(
                 Tail(packages),
                 IF entry = Null THEN result
                 ELSE Put(result, packages[1].k,
                          [name |-> entry[1].name,
                           version |-> OrElse(packages[1].v.version, <<"unknown">>),
                           parentPath |-> entry[1].parentPath]))

\* parseNpmV2Dependencies(lockData): acc = [packageVersions, packageDependencies]
RECURSIVE ParseNpmV2Dependencies(_, _)
ParseNpmV2Dependencies(packages, acc) ==
    IF Len(packages) = 0 THEN acc
    ELSE LET name == NpmV2PackageName(packages[1].k)
             packageData == packages[1].v
         IN  ParseNpmV2Dependencies(
                 Tail(packages),
                 IF name = Null THEN acc
                 ELSE [packageVersions |->
                           Put(acc.packageVersions, name[1],
                               OrElse(packageData.version, <<"unknown">>)),
                       packageDependencies |->
                           Put(acc.packageDependencies, name[1], Keys(packageData.dependencies))])

\* new DependencyTreeBuilder(lockData, projectPath, includeDev) for an npm
\* lock file of lockfileVersion 2 or 3
NewDependencyTreeBuilder(packageJson, packageLock, includeDev) ==
    LET parsed == ParseNpmV2Dependencies(packageLock.packages,
                                         [packageVersions |-> <<>>, packageDependencies |-> <<>>])
    IN  [rootDependencies |-> LoadRootDependencies(packageJson, includeDev),
         packageDependencies |-> parsed.packageDependencies,
         packageVersions |-> parsed.packageVersions]

\* this.packageVersions.get(packageName) || 'unknown'
NpmVersionOf(builder, packageName) ==
    IF Has(builder.packageVersions, packageName) /\ Get(builder.packageVersions, packageName) # <<>>
    THEN Get(builder.packageVersions, packageName)
    ELSE <<"unknown">>

\* if (depth < maxDepth): whether buildTreeNode expands the dependencies
NpmExpands(depth, maxDepth) == depth < maxDepth

\* buildTreeNode(packageName, depth, maxDepth, visited, parentPath):
\* st = [nodes, visited]
RECURSIVE BuildTreeNode(_, _, _, _, _, _)
RECURSIVE BuildTreeChildren(_, _, _, _, _, _, _)
BuildTreeNode(builder, packageName, depth, maxDepth, st, parentPath) ==
    IF DepthExceeded(depth, maxDepth) THEN [st |-> st, node |-> 0]
    ELSE
    LET version == NpmVersionOf(builder, packageName)
        nodeKey == CompositeKey(packageName, version)
    IN  IF nodeKey \in st.visited THEN [st |-> st, node |-> 0]
        ELSE
        LET id == Len(st.nodes) + 1
            node == [name |-> packageName, version |-> version, children |-> <<>>,
                     isRoot |-> depth = 0, depth |-> depth, path |-> parentPath]
            st1 == [nodes |-> Append(st.nodes, node), visited |-> st.visited \cup {nodeKey}]
            dependencies == IF Has(builder.packageDependencies, packageName)
                            THEN Get(builder.packageDependencies, packageName)
                            ELSE <<>>
        IN  [st |-> IF NpmExpands(depth, maxDepth)
                    THEN BuildTreeChildren(builder, dependencies, id, depth, maxDepth, st1,
                                           Append(parentPath, packageName))
                    ELSE st1,
             node |-> id]

BuildTreeChildren(builder, dependencies, id, depth, maxDepth, st, childPath) ==
    IF Len(dependencies) = 0 THEN st
    ELSE LET r == BuildTreeNode(builder, dependencies[1], depth + 1, maxDepth, st, childPath)
         IN  BuildTreeChildren(builder, Tail(dependencies), id, depth, maxDepth,
                               PushChild(r.st, id, r.node), childPath)

\* buildDependencyTreeStructure(maxDepth): acc = [st, tree]
RECURSIVE BuildDependencyTreeStructure(_, _, _, _)
BuildDependencyTreeStructure(builder, maxDepth, acc, i) ==
    IF i > Len(builder.rootDependencies) THEN acc
    ELSE LET r == BuildTreeNode(builder, builder.rootDependencies[i], 0, maxDepth, acc.st, <<>>)
         IN  BuildDependencyTreeStructure(
                 builder, maxDepth,
                 [st |-> r.st,
                  tree |-> IF r.node # 0 THEN Append(acc.tree, r.node) ELSE acc.tree],
                 i + 1)

\* findPathsRecursive(currentPackage, targetPackage, currentPath, visited,
\* paths, depth): st = [visited, paths]
RECURSIVE FindPathsRecursive(_, _, _, _, _, _)
RECURSIVE FindPathsInto(_, _, _, _, _, _, _)
FindPathsRecursive(builder, currentPackage, targetPackage, currentPath, st, depth) ==
    LET searchKey == <<currentPackage, targetPackage, depth>>
        dependencies == IF Has(builder.packageDependencies, currentPackage)
                        THEN Get(builder.packageDependencies, currentPackage)
                        ELSE <<>>
    IN  IF depth > 10 THEN st
        ELSE IF currentPackage \in Range(ButLast(currentPath)) THEN st
        ELSE IF currentPackage = targetPackage
        THEN [st EXCEPT !.paths = Append(@, currentPath)]
        ELSE IF searchKey \in st.visited THEN st
        ELSE FindPathsInto(builder, dependencies, targetPackage, currentPath,
                           [st EXCEPT !.visited = @ \cup {searchKey}], depth, 1)

\* its loop over the dependencies of the current package
FindPathsInto(builder, dependencies, targetPackage, currentPath, st, depth, i) ==
    IF i > Len(dependencies) THEN st
    ELSE FindPathsInto(builder, dependencies, targetPackage, currentPath,
                       FindPathsRecursive(builder, dependencies[i], targetPackage,
                                          Append(currentPath, dependencies[i]), st, depth + 1),
                       depth, i + 1)

\* findPathsToPackage(targetPackage): one visited set for all root dependencies
RECURSIVE FindPathsFromRoots(_, _, _, _)
FindPathsFromRoots(builder, targetPackage, st, i) ==
    IF i > Len(builder.rootDependencies) THEN st
    ELSE FindPathsFromRoots(builder, targetPackage,
                            FindPathsRecursive(builder, builder.rootDependencies[i],
                                               targetPackage, <<builder.rootDependencies[i]>>,
                                               st, 0),
                            i + 1)

FindPathsToPackage(builder, targetPackage) ==
    FindPathsFromRoots(builder, targetPackage, [visited |-> {}, paths |-> <<>>], 1).paths

\* nodeWithPath of buildAllNodes: a copy of the tree node with its path
NodeWithPath(node, parentPath) ==
    [name |-> node.name, version |-> node.version, children |-> node.children,
     isRoot |-> node.isRoot, depth |-> node.depth,
     path |-> parentPath,
     isDirect |-> Len(parentPath) = 0,
     isDevDependency |-> FALSE,
     size |-> Null]

\* buildAllNodes(nodes, parentPath) of buildDependencyTreeFromLockData:
\* st = [nodes, allNodes]; the copies are new objects
RECURSIVE BuildAllNodes(_, _, _)
BuildAllNodes(ids, parentPath, st) ==
    IF Len(ids) = 0 THEN st
    ELSE LET node == st.nodes[ids[1]]
             copy == Len(st.nodes) + 1
             st1 == [nodes |-> Append(st.nodes, NodeWithPath(node, parentPath)),
                     allNodes |-> Register(st.allNodes, CompositeKey(node.name, node.version), copy)]
             st2 == IF Len(node.children) > 0
                    THEN BuildAllNodes(node.children, Append(parentPath, node.name), st1)
                    ELSE st1
         IN  BuildAllNodes(Tail(ids), parentPath, st2)

\* the npm/yarn case of buildDependencyTreeFromLockData for a given maxDepth
\* (the function itself passes 20)
NpmBuildDependencyTree(builder, maxDepth) ==
    LET built == BuildDependencyTreeStructure(
                     builder, maxDepth,
                     [st |-> [nodes |-> <<>>, visited |-> {}], tree |-> <<>>], 1)
        indexed == BuildAllNodes(built.tree, <<>>, [nodes |-> built.st.nodes, allNodes |-> <<>>])
    IN  [root |-> [name |-> <<"root">>, version |-> <<"1", Dot, "0", Dot, "0">>,
                   children |-> built.tree, isRoot |-> TRUE, depth |-> 0],
         nodes |-> indexed.nodes,
         allNodes |-> indexed.allNodes]

\* ------------------------------------------ dependency chains shown
\* the versions of the nodes getPackageVersionFromTree accepts, in the order
\* its loops over allNodes.entries() and over each node list meet them: the
\* key starts with name@, the node has the name, and with a context path the
\* node's path joined by / equals the context's or starts with it and a /
RECURSIVE AcceptedVersions(_, _, _, _)
AcceptedVersions(tree, packageName, contextPath, i) ==
    IF i > Len(tree.allNodes) THEN <<>>
    ELSE LET nodeList == tree.allNodes[i].v
             contextPathStr == Join(contextPath, Slash)
             Accepts(id) ==
                 /\ tree.nodes[id].name = packageName
                 /\ Len(contextPath) > 0 =>
                        LET nodePathStr == Join(tree.nodes[id].path, Slash)
                        IN  \/ nodePathStr = contextPathStr
                            \/ IsPrefix(contextPathStr \o <<Slash>>, nodePathStr)
         IN  (IF IsPrefix(packageName \o <<At_>>, tree.allNodes[i].k)
              THEN [j \in 1..Len(SelectSeq(nodeList, Accepts)) |->
                       tree.nodes[SelectSeq(nodeList, Accepts)[j]].version]
              ELSE <<>>)
                 \o AcceptedVersions(tree, packageName, contextPath, i + 1)

\* findVersionInTree below the nodes ids: the first node of the name, depth first
RECURSIVE FindVersionInTree(_, _, _)
FindVersionInTree(tree, ids, packageName) ==
    IF Len(ids) = 0 THEN Null
    ELSE IF tree.nodes[ids[1]].name = packageName THEN Some(tree.nodes[ids[1]].version)
    ELSE LET found == FindVersionInTree(tree, tree.nodes[ids[1]].children, packageName)
         IN  IF found # Null THEN found
             ELSE FindVersionInTree(tree, Tail(ids), packageName)

\* getPackageVersionFromTree(packageName, dependencyTree, contextPath)
GetPackageVersionFromTree(packageName, tree, contextPath) ==
    LET accepted == AcceptedVersions(tree, packageName, contextPath, 1)
    IN  IF Len(accepted) > 0 THEN Some(accepted[1])
        ELSE IF tree.root.name = packageName THEN Some(tree.root.version)
        ELSE FindVersionInTree(tree, tree.root.children, packageName)

\* the versions buildDependencyTreeWithVersions shows for the parent chain of
\* an instance (chains of up to eight packages are shown in full)
ChainVersions(tree, parentChain) ==
    [i \in 1..Len(parentChain) |->
        OrElse(GetPackageVersionFromTree(parentChain[i], tree, SubSeq(parentChain, 1, i - 1)),
               <<"unknown">>)]

\* --------------------------------------------------- DependencyMerger
\* a section of a package.json that is undefined reads as no entries
EntriesOf(section) == IF section = Null THEN <<>> ELSE section[1]

\* a merge in which the workspace root's range wins
MergeDependencySection_RootWins(workspaceDeps, rootDeps) ==
    LET merged == Spread(Spread(<<>>, EntriesOf(workspaceDeps)), EntriesOf(rootDeps))
    IN  IF Len(merged) > 0 THEN Some(merged) ELSE Null

\* mergeDependencySection(workspaceDeps, rootDeps): Object.assign of the root's
\* entries, then of the workspace package's; undefined when nothing was assigned
MergeDependencySection(workspaceDeps, rootDeps) ==
    LET merged == Spread(Spread(<<>>, EntriesOf(rootDeps)), EntriesOf(workspaceDeps))
    IN  IF Len(merged) > 0 THEN Some(merged) ELSE Null

\* mergeDependencyObjects(workspacePackage, rootPackage)
MergeDependencyObjects(workspacePackage, rootPackage) ==
    [workspacePackage EXCEPT
        !.dependencies = MergeDependencySection(workspacePackage.dependencies,
                                                rootPackage.dependencies),
        !.devDependencies = MergeDependencySection(workspacePackage.devDependencies,
                                                   rootPackage.devDependencies),
        !.peerDependencies = MergeDependencySection(workspacePackage.peerDependencies,
                                                    rootPackage.peerDependencies),
        !.optionalDependencies = MergeDependencySection(workspacePackage.optionalDependencies,
                                                        rootPackage.optionalDependencies)]

\* ----------------------------------------------- NodeModulesAnalyzer
\* obj.field is defined
HasField(obj, field) == field \in DOMAIN obj

\* obj[key], undefined when the key is missing
Lookup(m, key) == IF Has(m, key) THEN Get(m, key) ELSE Undefined

\* if (value) for a string or undefined: the empty string is falsy
Truthy(value) == value # Undefined /\ value # <<>>

\* a lookup that knows the converted LockFileData structure only
PackageDependencies_ConvertedOnly(lockData, currentPackage) ==
    IF HasField(lockData, "dependencies")
          /\ Has(lockData.dependencies, currentPackage)
          /\ HasField(Get(lockData.dependencies, currentPackage), "dependencies")
    THEN Some(Get(lockData.dependencies, currentPackage).dependencies)
    ELSE Null

\* packageData.dependencies as findPathsFromPackage finds it for a package, or
\* null: under lockData.dependencies[name] in a converted LockFileData, else
\* under lockData.packages[name], an array of three elements or more holding
\* it in its third element, an object holding it itself
PackageDependencies(lockData, currentPackage) ==
    IF HasField(lockData, "dependencies")
    THEN IF Has(lockData.dependencies, currentPackage)
              /\ HasField(Get(lockData.dependencies, currentPackage), "dependencies")
         THEN Some(Get(lockData.dependencies, currentPackage).dependencies)
         ELSE Null
    ELSE IF HasField(lockData, "packages") /\ Has(lockData.packages, currentPackage)
    THEN LET packageEntry == Get(lockData.packages, currentPackage)
         IN  IF packageEntry.isArray /\ Len(packageEntry.items) >= 3
             THEN IF HasField(packageEntry.items[3], "dependencies")
                  THEN Some(packageEntry.items[3].dependencies)
                  ELSE Null
             ELSE IF ~packageEntry.isArray /\ HasField(packageEntry, "dependencies")
             THEN Some(packageEntry.dependencies)
             ELSE Null
    ELSE Null

\* findPathsFromPackage(targetPackage, currentPackage, lockData, visited): the
\* paths from currentPackage to targetPackage that repeat no package
RECURSIVE FindPathsFromPackage(_, _, _, _)
RECURSIVE FindPathsThrough(_, _, _, _, _)
FindPathsFromPackage(targetPackage, currentPackage, lockData, visited) ==
    IF currentPackage \in Range(visited) THEN <<>>
    ELSE LET newVisited == Append(visited, currentPackage)
             dependencies == PackageDependencies(lockData, currentPackage)
         IN  IF currentPackage = targetPackage THEN <<newVisited>>
             ELSE IF dependencies = Null THEN <<>>
             ELSE FindPathsThrough(targetPackage, dependencies[1], lockData, newVisited, 1)

\* its loop over Object.entries(packageData.dependencies)
FindPathsThrough(targetPackage, dependencies, lockData, newVisited, i) ==
    IF i > Len(dependencies) THEN <<>>
    ELSE FindPathsFromPackage(targetPackage, dependencies[i].k, lockData, newVisited)
             \o FindPathsThrough(targetPackage, dependencies, lockData, newVisited, i + 1)

\* findAllPathsToPackage(targetPackage, rootPackages, lockData)
RECURSIVE FindAllPathsToPackage(_, _, _, _)
FindAllPathsToPackage(targetPackage, rootPackages, lockData, i) ==
    IF i > Len(rootPackages) THEN <<>>
    ELSE FindPathsFromPackage(targetPackage, rootPackages[i], lockData, <<>>)
             \o FindAllPathsToPackage(targetPackage, rootPackages, lockData, i + 1)

\* isOnlyDevDependencyFromLockFile(packageName, packageJson, lockData)
IsOnlyDevDependencyFromLockFile(packageName, packageJson, lockData) ==
    LET devDependencies == packageJson.devDependencies
        productionDependencies == packageJson.dependencies
        devPaths == FindAllPathsToPackage(packageName, Keys(devDependencies), lockData, 1)
        prodPaths == FindAllPathsToPackage(packageName, Keys(productionDependencies),
                                           lockData, 1)
    IN  IF Truthy(Lookup(devDependencies, packageName)) THEN TRUE
        ELSE IF Truthy(Lookup(productionDependencies, packageName)) THEN FALSE
        ELSE Len(devPaths) > 0 /\ Len(prodPaths) = 0

\* ------------------------------------------------- DuplicateDetector
\* the package name buildPackageMapFromTree reads from a composite key
PackageNameOfKey(compositeKey) ==
    IF StartsWith(compositeKey, At_)
    THEN SubSeq(compositeKey, 1, LastIndexOf(compositeKey, At_, Len(compositeKey)) - 1)
    ELSE Split(compositeKey, At_)[1]

\* `${node.name}@${node.version}:${pathKey}`
UniqueKey(node) ==
    node.name \o <<At_>> \o node.version \o <<":">> \o Join(node.path, Arrow)

\* deduplicateNodes(nodes): the first node of every unique key, in order
RECURSIVE DeduplicateNodes(_, _, _)
DeduplicateNodes(nodes, ids, seen) ==
    IF Len(ids) = 0 THEN <<>>
    ELSE LET uniqueKey == UniqueKey(nodes[ids[1]])
         IN  IF uniqueKey \in seen
             THEN DeduplicateNodes(nodes, Tail(ids), seen)
             ELSE <<ids[1]>> \o DeduplicateNodes(nodes, Tail(ids), seen \cup {uniqueKey})

\* a detector that keeps the package map of its previous call
ClearPackageMap_Kept(packageMap) == packageMap

\* this.packageMap.clear()
ClearPackageMap(packageMap) == <<>>

\* the loop of buildPackageMapFromTree over dependencyTree.allNodes.entries()
RECURSIVE BuildPackageMapFromTree(_, _, _)
BuildPackageMapFromTree(tree, packageMap, i) ==
    IF i > Len(tree.allNodes) THEN packageMap
    ELSE LET packageName == PackageNameOfKey(tree.allNodes[i].k)
             uniqueNodes == DeduplicateNodes(tree.nodes, tree.allNodes[i].v, {})
         IN  BuildPackageMapFromTree(
                 tree,
                 IF packageName = <<>> THEN packageMap
                 ELSE Put(packageMap, packageName,
                          (IF Has(packageMap, packageName) THEN Get(packageMap, packageName)
                           ELSE <<>>) \o uniqueNodes),
                 i + 1)

\* the byte size calculateDirectorySize finds for an installed instance; the
\* file system is outside the model and stands still during a run
InstalledSize(node) == Len(node.path) + 1

\* calculateSizesForAllNodes(projectPath): every instance of the package map
\* whose size is still undefined gets one
CalculateSizesForAllNodes(packageMap, nodes) ==
    LET instances == UNION {Range(packageMap[i].v) : i \in 1..Len(packageMap)}
    IN  [id \in 1..Len(nodes) |->
            IF id \in instances /\ nodes[id].size = Null
            THEN [nodes[id] EXCEPT !.size = Some(InstalledSize(nodes[id]))]
            ELSE nodes[id]]

\* versionMap of analyzeDuplicates: version -> instances, in insertion order
RECURSIVE VersionMap(_, _, _)
VersionMap(nodes, instances, acc) ==
    IF Len(instances) = 0 THEN acc
    ELSE LET version == nodes[instances[1]].version
         IN  VersionMap(nodes, Tail(instances),
                        Put(acc, version,
                            Append(IF Has(acc, version) THEN Get(acc, version) ELSE <<>>,
                                   instances[1])))

\* the instances of the versions that have more than one instance
RECURSIVE RepeatedVersions(_)
RepeatedVersions(versionMap) ==
    IF Len(versionMap) = 0 THEN <<>>
    ELSE (IF Len(versionMap[1].v) > 1 THEN versionMap[1].v ELSE <<>>)
             \o RepeatedVersions(Tail(versionMap))

\* a policy that reports every instance of a repeated name
DuplicateInstances_All(options, nodes, instances) == instances

\* duplicateInstances of analyzeDuplicates for one package name
DuplicateInstances(options, nodes, instances) ==
    LET versionMap == VersionMap(nodes, instances, <<>>)
    IN  IF options.checkVersions
        THEN IF options.onlyVersionConflicts
             THEN IF Len(versionMap) > 1 THEN instances ELSE <<>>
             ELSE IF Len(versionMap) > 1 THEN instances ELSE RepeatedVersions(versionMap)
        ELSE instances

\* Array.from(new Set(duplicateInstances.map(i => i.version)))
RECURSIVE DistinctVersions(_, _, _)
DistinctVersions(nodes, instances, acc) ==
    IF Len(instances) = 0 THEN acc
    ELSE LET version == nodes[instances[1]].version
         IN  DistinctVersions(nodes, Tail(instances),
                              IF version \in Range(acc) THEN acc ELSE Append(acc, version))

\* a threshold that lets a single instance through
HasSeveral_AtLeastOne(instances) == Len(instances) > 0

\* instances.length > 1 and duplicateInstances.length > 1 in analyzeDuplicates
HasSeveral(instances) == Len(instances) > 1

\* the loop of analyzeDuplicates over this.packageMap.entries()
RECURSIVE CollectDuplicates(_, _, _, _)
CollectDuplicates(options, nodes, packageMap, i) ==
    IF i > Len(packageMap) THEN <<>>
    ELSE LET instances == packageMap[i].v
             duplicateInstances == DuplicateInstances(options, nodes, instances)
         IN  (IF HasSeveral(instances) /\ HasSeveral(duplicateInstances)
              THEN <<[name |-> packageMap[i].k,
                      instances |-> duplicateInstances,
                      versions |-> DistinctVersions(nodes, duplicateInstances, <<>>)]>>
              ELSE <<>>)
                 \o CollectDuplicates(options, nodes, packageMap, i + 1)

\* a sort that puts a group in front of the groups of its own size
RECURSIVE InsertGroup_TiesFirst(_, _)
InsertGroup_TiesFirst(sorted, group) ==
    IF Len(sorted) = 0 THEN <<group>>
    ELSE IF Len(sorted[1].instances) > Len(group.instances)
    THEN <<sorted[1]>> \o InsertGroup_TiesFirst(Tail(sorted), group)
    ELSE <<group>> \o sorted

\* duplicates.sort((a, b) => b.instances.length - a.instances.length): a
\* stable sort, so a group goes behind the groups that are not smaller
RECURSIVE InsertGroup(_, _)
InsertGroup(sorted, group) ==
    IF Len(sorted) = 0 THEN <<group>>
    ELSE IF Len(sorted[1].instances) >= Len(group.instances)
    THEN <<sorted[1]>> \o InsertGroup(Tail(sorted), group)
    ELSE <<group>> \o sorted

RECURSIVE SortGroups(_, _)
SortGroups(groups, sorted) ==
    IF Len(groups) = 0 THEN sorted
    ELSE SortGroups(Tail(groups), InsertGroup(sorted, groups[1]))

AnalyzeDuplicates(options, nodes, packageMap) ==
    SortGroups(CollectDuplicates(options, nodes, packageMap, 1), <<>>)

RECURSIVE SumInstances(_)
SumInstances(duplicates) ==
    IF Len(duplicates) = 0 THEN 0
    ELSE Len(duplicates[1].instances) + SumInstances(Tail(duplicates))

\* the DuplicateSummary returned; its instances are the tree's node objects
SummaryOf(packageMap, duplicates) ==
    [totalPackages |-> Len(packageMap),
     duplicatePackages |-> Len(duplicates),
     totalDuplicateInstances |-> SumInstances(duplicates),
     duplicates |-> duplicates]

\* the loop of buildPackageMapFromTree over dependencyTree.root.children
RootDependencies(tree) ==
    {tree.nodes[tree.root.children[i]].name : i \in 1..Len(tree.root.children)}

\* detectDuplicates(dependencyTree, projectPath) on a detector whose package
\* map is packageMap: the new package map and root dependencies, the tree's
\* node objects (sized when a project path is given) and the summary returned
DetectDuplicatesCall(options, packageMap, tree, withProjectPath) ==
    LET newMap == BuildPackageMapFromTree(tree, ClearPackageMap(packageMap), 1)
        nodes == IF withProjectPath THEN CalculateSizesForAllNodes(newMap, tree.nodes)
                 ELSE tree.nodes
        duplicates == AnalyzeDuplicates(options, nodes, newMap)
    IN  [packageMap |-> newMap,
         rootDependencies |-> RootDependencies(tree),
         nodes |-> nodes,
         summary |-> SummaryOf(newMap, duplicates)]

\* ------------------------------------------------------ lock files on disk
\* An install plan is what a package manager resolved: a sequence of package
\* instances [name, version, parent, deps], parent = <<>> for a hoisted
\* (top-level) instance and the owning package's name for a nested one, deps
\* a map name -> range; and the manifest's sections.  Each package manager
\* writes the plan in its own format.
A == <<"A">>
B == <<"B">>
C == <<"C">>
D == <<"D">>
AppA == <<"app-a">>
AppB == <<"app-b">>
CommonLib == <<"common-lib">>
V1 == <<"1", Dot, "0", Dot, "0">>
V2 == <<"2", Dot, "0", Dot, "0">>
CaretOf(version) == <<Caret>> \o version

Names == <<A, B, C>>

Entry(key, val) == [k |-> key, v |-> val]

Instance(name, version, parent, deps) ==
    [name |-> name, version |-> version, parent |-> parent, deps |-> deps]

Manifest(name, dependencies, devDependencies) ==
    [name |-> name, dependencies |-> dependencies, devDependencies |-> devDependencies,
     peerDependencies |-> <<>>, optionalDependencies |-> <<>>]

\* bun.lock: "packages": { key: [name@version, resolution, {dependencies}, integrity] }
\* with key = name, or parent/name for a nested instance
BunLockOf(plan) ==
    [valid |-> TRUE,
     workspaces |-> <<Entry(<<>>, plan.manifest)>>,
     packages |->
        [i \in 1..Len(plan.instances) |->
            LET p == plan.instances[i]
            IN  Entry(IF p.parent = <<>> THEN p.name ELSE p.parent \o <<Slash>> \o p.name,
                      [isArray |-> TRUE,
                       items |-> <<CompositeKey(p.name, p.version), <<>>,
                                   [dependencies |-> p.deps], <<>>>>])]]

\* the version a pnpm lock records for a dependency edge: the range's version
ResolvedOf(range) ==
    IF StartsWith(range, Caret) \/ StartsWith(range, Tilde) THEN Substring1(range) ELSE range

ResolvedDeps(deps) == [i \in 1..Len(deps) |-> Entry(deps[i].k, ResolvedOf(deps[i].v))]

ImporterDeps(deps) ==
    [i \in 1..Len(deps) |->
        Entry(deps[i].k, [specifier |-> deps[i].v, version |-> ResolvedOf(deps[i].v)])]

\* pnpm-lock.yaml (lockfileVersion 9): importers, packages and snapshots keyed
\* name@version; the snapshots carry the resolved dependency edges
PnpmLockOf(plan) ==
    [valid |-> TRUE,
     importers |-> <<Entry(<<Dot>>, [dependencies |-> ImporterDeps(plan.manifest.dependencies),
                                     devDependencies |-> ImporterDeps(plan.manifest.devDependencies)])>>,
     packages |->
        [i \in 1..Len(plan.instances) |->
            LET p == plan.instances[i]
            IN  Entry(CompositeKey(p.name, p.version),
                      [name |-> Null, version |-> Null,
                       dependencies |-> <<>>, peerDependencies |-> <<>>])],
     snapshots |->
        Some([i \in 1..Len(plan.instances) |->
                LET p == plan.instances[i]
                IN  Entry(CompositeKey(p.name, p.version),
                          [dependencies |-> ResolvedDeps(p.deps)])])]

\* a pnpm lock without a snapshots table: the packages carry their own
\* dependency edges
SnapshotlessPnpmLockOf(plan) ==
    [valid |-> TRUE,
     importers |-> <<Entry(<<Dot>>, [dependencies |-> ImporterDeps(plan.manifest.dependencies),
                                     devDependencies |-> ImporterDeps(plan.manifest.devDependencies)])>>,
     packages |->
        [i \in 1..Len(plan.instances) |->
            LET p == plan.instances[i]
            IN  Entry(CompositeKey(p.name, p.version),
                      [name |-> Null, version |-> Null,
                       dependencies |-> ResolvedDeps(p.deps), peerDependencies |-> <<>>])],
     snapshots |-> Null]

\* package.json and package-lock.json (lockfileVersion 3): "packages" keyed
\* node_modules/name, or node_modules/parent/node_modules/name when nested
NpmLockOf(plan) ==
    [valid |-> TRUE,
     packageJson |-> plan.manifest,
     packages |->
        <<Entry(<<>>, [version |-> Some(V1), dependencies |-> plan.manifest.dependencies])>> \o
        [i \in 1..Len(plan.instances) |->
            LET p == plan.instances[i]
            IN  Entry(IF p.parent = <<>>
                      THEN <<"node_modules", Slash>> \o p.name
                      ELSE <<"node_modules", Slash>> \o p.parent
                               \o <<Slash, "node_modules", Slash>> \o p.name,
                      [version |-> Some(p.version), dependencies |-> p.deps])]]

\* a dependency graph over Names: every name is installed once, at 1.0.0, and
\* depends on its successors in edges by ^1.0.0
EdgeSets ==
    {E \in SUBSET {<<i, j>> : i \in 1..Len(Names), j \in 1..Len(Names)} :
        Cardinality(E) <= MaxEdges}

RECURSIVE DepsFrom(_, _, _)
DepsFrom(E, i, j) ==
    IF j > Len(Names) THEN <<>>
    ELSE (IF <<i, j>> \in E THEN <<Entry(Names[j], CaretOf(V1))>> ELSE <<>>)
             \o DepsFrom(E, i, j + 1)

DepsIn(E, i) == DepsFrom(E, i, 1)

GraphPlan(E, numRoots) ==
    [manifest |-> Manifest(<<"project">>,
                           [i \in 1..numRoots |-> Entry(Names[i], CaretOf(V1))], <<>>),
     instances |-> [i \in 1..Len(Names) |-> Instance(Names[i], V1, <<>>, DepsIn(E, i))]]

GraphPlans == {GraphPlan(E, numRoots) : E \in EdgeSets, numRoots \in 1..2}

\* A <-> B with A the only root dependency
CyclePlan == GraphPlan({<<1, 2>>, <<2, 1>>}, 1)

\* the scenarios of the specification's section 8 and their neighbours
ChainPlan ==
    [manifest |-> Manifest(<<"project">>, <<Entry(A, CaretOf(V1))>>, <<>>),
     instances |-> <<Instance(A, V1, <<>>, <<Entry(B, CaretOf(V1))>>),
                     Instance(B, V1, <<>>, <<Entry(C, CaretOf(V1))>>),
                     Instance(C, V1, <<>>, <<Entry(D, CaretOf(V1))>>),
                     Instance(D, V1, <<>>, <<>>)>>]

\* app-a -> common-lib@^1.0.0, app-b -> common-lib@^2.0.0; hoisted is the
\* version installed at top level, the other one is nested under its dependent
DiamondPlan(hoisted) ==
    [manifest |-> Manifest(<<"project">>,
                           <<Entry(AppA, CaretOf(V1)), Entry(AppB, CaretOf(V1))>>, <<>>),
     instances |-> <<Instance(AppA, V1, <<>>, <<Entry(CommonLib, CaretOf(V1))>>),
                     Instance(AppB, V1, <<>>, <<Entry(CommonLib, CaretOf(V2))>>),
                     Instance(CommonLib, IF hoisted = 1 THEN V1 ELSE V2, <<>>, <<>>),
                     Instance(CommonLib, IF hoisted = 1 THEN V2 ELSE V1,
                              IF hoisted = 1 THEN AppB ELSE AppA, <<>>)>>]

\* A depends on C and B; B depends on C and D: C has no lock entry when
\* missing = 1, and only an entry of another major version when missing = 2
UnresolvedPlan(missing, direct) ==
    [manifest |-> Manifest(<<"project">>,
                           IF direct
                           THEN <<Entry(C, CaretOf(V1)), Entry(A, CaretOf(V1))>>
                           ELSE <<Entry(A, CaretOf(V1))>>, <<>>),
     instances |-> <<Instance(A, V1, <<>>, <<Entry(C, CaretOf(V1)), Entry(B, CaretOf(V1))>>),
                     Instance(B, V1, <<>>, <<Entry(C, CaretOf(V1)), Entry(D, CaretOf(V1))>>),
                     Instance(D, V1, <<>>, <<>>)>>
                    \o (IF missing = 2 THEN <<Instance(C, V2, <<>>, <<>>)>> ELSE <<>>)]

ScenarioPlans ==
    {ChainPlan} \cup {DiamondPlan(h) : h \in 1..2}
        \cup {UnresolvedPlan(m, d) : m \in 1..2, d \in BOOLEAN}

Plans == GraphPlans \cup ScenarioPlans

\* a lock file whose content is not valid syntax, and one that is valid but
\* declares no workspace / importer
InvalidFile == [valid |-> FALSE]

\* package values that are not [name@version, resolution, info, ...]: an
\* object, a two-element array, and arrays whose first element is a string
\* without "@" or a number
MalformedValues ==
    {[isArray |-> FALSE, items |-> <<>>],
     [isArray |-> TRUE, items |-> <<CompositeKey(A, V1), <<>>>>],
     [isArray |-> TRUE, items |-> <<<<"garbage">>, <<>>, [dependencies |-> <<>>], <<>>>>],
     [isArray |-> TRUE, items |-> <<NumberValue, <<>>, [dependencies |-> <<>>], <<>>>>]}

\* the chain's bun.lock with one malformed entry ahead of the others
MalformedBunFiles ==
    {[BunLockOf(ChainPlan) EXCEPT !.packages = <<Entry(<<"bad">>, value)>> \o @] :
        value \in MalformedValues}

BunFiles ==
    {BunLockOf(plan) : plan \in Plans}
        \cup {[BunLockOf(ChainPlan) EXCEPT !.workspaces = <<>>], InvalidFile}
        \cup MalformedBunFiles

\* the projects whose pnpm lock is also written without a snapshots table
SnapshotlessPlans == {ChainPlan} \cup {DiamondPlan(h) : h \in 1..2}

PnpmFiles ==
    {PnpmLockOf(plan) : plan \in Plans}
        \cup {[PnpmLockOf(ChainPlan) EXCEPT !.importers = <<>>], InvalidFile}
        \cup {SnapshotlessPnpmLockOf(plan) : plan \in SnapshotlessPlans}

NpmFiles == {NpmLockOf(plan) : plan \in Plans}

Routes == {"bun", "pnpm", "npm"}

FilesOf(r) == IF r = "bun" THEN BunFiles ELSE IF r = "pnpm" THEN PnpmFiles ELSE NpmFiles

\* the lock files the three package managers write for one plan
FilesOfPlan(plan) == {BunLockOf(plan), PnpmLockOf(plan), NpmLockOf(plan)}

\* ------------------------------------------------------------------- state
VARIABLES
    route,      \* the lock format found in the project
    files,      \* the project's lock file (and manifest) as read from disk
    parser,     \* the BunLockParser / PnpmLockParser: [parsed, lockData, root]
    built,      \* the last buildDependencyTree call: [status, maxDepth, tree]
    detector,   \* the DuplicateDetector, once constructed: [options, packageMap,
                \* rootDependencies]
    summaries,  \* the DuplicateSummary values its calls on the built tree returned
    call,       \* a call of one of the pure functions: [fn, arguments]
    returned,   \* what that call returned, once it has
    callers     \* the detectDuplicates calls in flight on the detector, each
                \* [tree, pc, summary]

vars == <<route, files, parser, built, detector, summaries, call, returned, callers>>

Init ==
    /\ route \in Routes
    /\ files \in FilesOf(route)
    /\ parser = [parsed |-> "none", lockData |-> Null, root |-> Null]
    /\ built = [status |-> "none"]
    /\ detector = Null
    /\ summaries = <<>>
    /\ call = Null
    /\ returned = Null
    /\ callers = <<>>

\* BunLockParser.parseAndNormalize(lockPath)
BunParseAndNormalize ==
    /\ route = "bun"
    /\ parser.parsed = "none"
    /\ IF ~files.valid \/ NormalizeBunLockDataThrows(files)
       THEN parser' = [parser EXCEPT !.parsed = "threw"]
       ELSE LET normalized == NormalizeBunLockData(files)
            IN  parser' = [parsed |-> "ok",
                           lockData |-> Some(normalized),
                           root |-> BunRootWorkspace(normalized)]
    /\ UNCHANGED <<route, files, built, detector, summaries, call, returned, callers>>

\* PnpmLockParser.parseAndNormalize(lockPath)
PnpmParseAndNormalize ==
    /\ route = "pnpm"
    /\ parser.parsed = "none"
    /\ IF ~files.valid
       THEN parser' = [parser EXCEPT !.parsed = "threw"]
       ELSE LET normalized == NormalizePnpmLockData(files)
            IN  parser' = [parsed |-> "ok",
                           lockData |-> Some(normalized),
                           root |-> PnpmRootImporter(normalized)]
    /\ UNCHANGED <<route, files, built, detector, summaries, call, returned, callers>>

\* if (!this.lockData || !this.rootWorkspace) throw ...
MustParseFirst(p) == p.lockData = Null \/ p.root = Null

\* BunLockParser.buildDependencyTree(maxDepth, includeDevDependencies)
BunBuildTree(maxDepth, includeDevDependencies) ==
    /\ route = "bun"
    /\ IF MustParseFirst(parser)
       THEN built' = [status |-> "threw"]
       ELSE built' = [status |-> "ok",
                      maxDepth |-> maxDepth,
                      tree |-> BunBuildDependencyTree(parser.lockData[1], parser.root[1],
                                                      maxDepth, includeDevDependencies)]
    /\ summaries' = <<>>
    /\ UNCHANGED <<route, files, parser, detector, call, returned, callers>>

\* PnpmLockParser.buildDependencyTree(maxDepth, includeDevDependencies)
PnpmBuildTree(maxDepth, includeDevDependencies) ==
    /\ route = "pnpm"
    /\ IF MustParseFirst(parser)
       THEN built' = [status |-> "threw"]
       ELSE built' = [status |-> "ok",
                      maxDepth |-> maxDepth,
                      tree |-> PnpmBuildDependencyTree(parser.lockData[1], parser.root[1],
                                                       maxDepth, includeDevDependencies)]
    /\ summaries' = <<>>
    /\ UNCHANGED <<route, files, parser, detector, call, returned, callers>>

\* the npm case of buildDependencyTreeFromLockData(lockData, projectPath,
\* includeDevDependencies): a new DependencyTreeBuilder, its tree, and allNodes
NpmBuildTree(maxDepth, includeDevDependencies) ==
    /\ route = "npm"
    /\ built' = [status |-> "ok",
                 maxDepth |-> maxDepth,
                 tree |-> NpmBuildDependencyTree(
                              NewDependencyTreeBuilder(files.packageJson, files,
                                                       includeDevDependencies),
                              maxDepth)]
    /\ summaries' = <<>>
    /\ UNCHANGED <<route, files, parser, detector, call, returned, callers>>

Next ==
    \/ BunParseAndNormalize
    \/ PnpmParseAndNormalize
    \/ \E maxDepth \in 1..MaxDepthBound, includeDevDependencies \in BOOLEAN :
          \/ BunBuildTree(maxDepth, includeDevDependencies)
          \/ PnpmBuildTree(maxDepth, includeDevDependencies)
          \/ NpmBuildTree(maxDepth, includeDevDependencies)

Spec == Init /\ [][Next]_vars

\* new DuplicateDetector(options)
DetectorOptions ==
    {[checkVersions |-> TRUE, onlyVersionConflicts |-> FALSE],
     [checkVersions |-> TRUE, onlyVersionConflicts |-> TRUE],
     [checkVersions |-> FALSE, onlyVersionConflicts |-> FALSE]}

NewDuplicateDetector(options) ==
    /\ detector = Null
    /\ detector' = Some([options |-> options, packageMap |-> <<>>,
                         rootDependencies |-> {}])
    /\ UNCHANGED <<route, files, parser, built, summaries, call, returned, callers>>

\* detector.detectDuplicates(dependencyTree, projectPath) on the built tree
DetectDuplicates(withProjectPath) ==
    /\ detector # Null
    /\ built.status = "ok"
    /\ Len(summaries) < MaxDetectCalls
    /\ LET done == DetectDuplicatesCall(detector[1].options, detector[1].packageMap,
                                        built.tree, withProjectPath)
       IN  /\ detector' = Some([detector[1] EXCEPT
                                   !.packageMap = done.packageMap,
                                   !.rootDependencies = done.rootDependencies])
           /\ built' = [built EXCEPT !.tree.nodes = done.nodes]
           /\ summaries' = Append(summaries, done.summary)
    /\ UNCHANGED <<route, files, parser, call, returned, callers>>

\* the projects duplicate detection is explored on
DetectEdgeSets == {E \in EdgeSets : E \subseteq {<<1, 2>>, <<1, 3>>, <<2, 3>>}}

\* one direct dependency, A, declared as a devDependency; B is installed too
DevOnlyPlan ==
    [manifest |-> Manifest(<<"project">>, <<>>, <<Entry(A, CaretOf(V1))>>),
     instances |-> <<Instance(A, V1, <<>>, <<>>), Instance(B, V1, <<>>, <<>>)>>]

\* projects with A as the only direct dependency
SinglePlans == {GraphPlan(E, 1) : E \in DetectEdgeSets} \cup {DevOnlyPlan}

DetectPlans == ScenarioPlans \cup {GraphPlan(E, 2) : E \in DetectEdgeSets} \cup SinglePlans

InitDetect ==
    /\ Init
    /\ \E plan \in DetectPlans : files \in FilesOfPlan(plan)

NextDetect ==
    \/ Next
    \/ \E options \in DetectorOptions : NewDuplicateDetector(options)
    \/ \E withProjectPath \in BOOLEAN : DetectDuplicates(withProjectPath)

DetectSpec == InitDetect /\ [][NextDetect]_vars

\* ------------------------------------------- calls of the pure functions
\* version strings: 1 to MaxParts numeric components joined by "."
Components == {<<"1">>, <<"2">>}

PartsSet == UNION {[1..n -> Components] : n \in 1..MaxParts}

RangePrefixes == {<<>>, <<Caret>>, <<Tilde>>}

SatisfiesVersionCalls ==
    {[fn |-> "satisfiesVersion", versionParts |-> v, prefix |-> p, rangeParts |-> r] :
        v \in PartsSet, p \in RangePrefixes, r \in PartsSet}

\* app-b carries its own common-lib 1.0.0, listed ahead of the hoisted 1.1.0
V11 == <<"1", Dot, "1", Dot, "0">>

NestedFirstPlan ==
    [manifest |-> Manifest(<<"project">>,
                           <<Entry(AppA, CaretOf(V1)), Entry(AppB, CaretOf(V1))>>, <<>>),
     instances |-> <<Instance(AppA, V1, <<>>, <<Entry(CommonLib, CaretOf(V1))>>),
                     Instance(AppB, V1, <<>>, <<Entry(CommonLib, V1)>>),
                     Instance(CommonLib, V1, AppB, <<>>),
                     Instance(CommonLib, V11, <<>>, <<>>)>>]

LookupPlans == {DiamondPlan(1), DiamondPlan(2), UnresolvedPlan(2, FALSE), NestedFirstPlan}

\* the normalized lock data a parser holds after parseAndNormalize
LockDataOf(parserType, plan) ==
    IF parserType = "bun" THEN NormalizeBunLockData(BunLockOf(plan))
    ELSE NormalizePnpmLockData(PnpmLockOf(plan))

FindPackageInLockCalls ==
    {[fn |-> "findPackageInLock", parser |-> t, lockData |-> LockDataOf(t, plan),
      packageName |-> n, versionRange |-> r, parentPath |-> pp] :
        t \in {"bun", "pnpm"}, plan \in LookupPlans,
        n \in {CommonLib, C, AppA},
        r \in {CaretOf(V1), CaretOf(V2), V1},
        pp \in {<<>>, <<AppA>>, <<AppB>>}}

\* the directory the process runs in: the project's own, another project's,
\* or one without lock files
CwdDirs == {"project", "other", "empty"}

\* what process.cwd()/package-lock.json reads (a missing file gives the
\* builder no packages: parseNpmDependencies returns at once)
CwdPackageLock(dir, projectFiles) ==
    IF dir = "project" THEN projectFiles
    ELSE IF dir = "other" THEN NpmLockOf(UnresolvedPlan(2, FALSE))
    ELSE [valid |-> TRUE, packageJson |-> projectFiles.packageJson, packages |-> <<>>]

ProjectFiles(r, plan) ==
    IF r = "bun" THEN BunLockOf(plan) ELSE IF r = "pnpm" THEN PnpmLockOf(plan) ELSE NpmLockOf(plan)

\* two runs on the same project, each in some working directory
BuildFromLockDataCalls ==
    {[fn |-> "buildDependencyTreeFromLockData", type |-> r, project |-> ProjectFiles(r, plan),
      includeDevDependencies |-> d, maxDepth |-> m, cwds |-> <<c1, c2>>] :
        r \in Routes, plan \in {ChainPlan, DiamondPlan(1), CyclePlan}, d \in BOOLEAN,
        m \in 2..MaxDepthBound, c1 \in CwdDirs, c2 \in CwdDirs}

\* the lock objects isOnlyDevDependencyFromLockFile is given for a plan: a
\* converted LockFileData, a bun.lock as read, a bun lock of package objects,
\* or an object with neither dependencies nor packages
LockShapes == {"converted", "bun", "objects", "none"}

OnlyDevLockOf(shape, plan) ==
    IF shape = "converted"
    THEN [type |-> "bun",
          dependencies |->
              [i \in 1..Len(plan.instances) |->
                  Entry(plan.instances[i].name,
                        [name |-> plan.instances[i].name,
                         version |-> plan.instances[i].version,
                         dependencies |-> plan.instances[i].deps])]]
    ELSE IF shape = "bun" THEN BunLockOf(plan)
    ELSE IF shape = "objects"
    THEN [packages |->
              [i \in 1..Len(plan.instances) |->
                  Entry(plan.instances[i].name,
                        [isArray |-> FALSE,
                         name |-> plan.instances[i].name,
                         version |-> plan.instances[i].version,
                         dependencies |-> plan.instances[i].deps])]]
    ELSE [lockfileVersion |-> <<"1">>]

\* a manifest section declaring the names of S, all with one range
RECURSIVE Declared(_, _, _)
Declared(S, range, j) ==
    IF j > Len(Names) THEN <<>>
    ELSE (IF j \in S THEN <<Entry(Names[j], range)>> ELSE <<>>) \o Declared(S, range, j + 1)

\* the ranges a manifest declares: ^1.0.0, or the empty string (any version)
DeclaredRanges == {CaretOf(V1), <<>>}

OnlyDevEdgeSets == {E \in EdgeSets : \A e \in E : e[1] # e[2]}

OnlyDevCalls(names) ==
    {[fn |-> "isOnlyDevDependencyFromLockFile", packageName |-> names[n],
      packageJson |-> Manifest(<<"project">>, Declared(Pr, range, 1), Declared(Dv, range, 1)),
      shape |-> shape, plan |-> GraphPlan(E, 1)] :
        n \in 1..Len(names), Pr \in SUBSET (1..Len(names)), Dv \in SUBSET (1..Len(names)),
        range \in DeclaredRanges, shape \in LockShapes, E \in OnlyDevEdgeSets}

\* the root lists of findAllPathsToPackage: the keys of a manifest section
FindAllPathsCalls(names) ==
    {[fn |-> "findAllPathsToPackage", targetPackage |-> names[n],
      rootPackages |-> Keys(Declared(S, CaretOf(V1), 1)),
      shape |-> shape, plan |-> GraphPlan(E, 1)] :
        n \in 1..Len(names), S \in SUBSET (1..Len(names)),
        shape \in LockShapes, E \in OnlyDevEdgeSets}

\* what a section of the workspace package's and of the workspace root's
\* package.json holds: nothing, an empty object, or entries; A is declared by
\* both, with different ranges
WorkspaceSections == {Null, Some(<<>>), Some(<<Entry(A, CaretOf(V2)), Entry(C, CaretOf(V1))>>)}

RootSections == {Null, Some(<<>>), Some(<<Entry(A, CaretOf(V1)), Entry(B, CaretOf(V1))>>)}

PackageJsons(name, sections) ==
    {[name |-> name, dependencies |-> d, devDependencies |-> v,
      peerDependencies |-> p, optionalDependencies |-> o] :
        d \in sections, v \in sections, p \in sections, o \in sections}

MergeCalls(workspaceSections, rootSections) ==
    {[fn |-> "mergeDependencyObjects", workspacePackage |-> w, rootPackage |-> r] :
        w \in PackageJsons(<<"package-a">>, workspaceSections),
        r \in PackageJsons(<<"monorepo">>, rootSections)}

\* buildDependencyTreeFromLockData(lockData, projectPath, includeDevDependencies)
\* run with the process in directory cwd, with depth limit maxDepth
BuildDependencyTreeFromLockData(type, project, includeDevDependencies, maxDepth, cwd) ==
    IF type = "bun"
    THEN LET normalized == NormalizeBunLockData(project)
         IN  BunBuildDependencyTree(normalized, BunRootWorkspace(normalized)[1],
                                    maxDepth, includeDevDependencies)
    ELSE IF type = "pnpm"
    THEN LET normalized == NormalizePnpmLockData(project)
         IN  PnpmBuildDependencyTree(normalized, PnpmRootImporter(normalized)[1],
                                     maxDepth, includeDevDependencies)
    ELSE NpmBuildDependencyTree(
             NewDependencyTreeBuilder(project.packageJson, CwdPackageLock(cwd, project),
                                      includeDevDependencies),
             maxDepth)

\* direct dependencies A and B; A depends on B@^2.0.0, installed nested under
\* A, the project on B@^1.0.0, hoisted; both B depend on C
AncestorPlan ==
    [manifest |-> Manifest(<<"project">>,
                           <<Entry(A, CaretOf(V1)), Entry(B, CaretOf(V1))>>, <<>>),
     instances |-> <<Instance(A, V1, <<>>, <<Entry(B, CaretOf(V2))>>),
                     Instance(B, V1, <<>>, <<Entry(C, CaretOf(V1))>>),
                     Instance(B, V2, A, <<Entry(C, CaretOf(V1))>>),
                     Instance(C, V1, <<>>, <<>>)>>]

\* the duplicate instances a detector with default options reports for a tree
ReportedInstances(tree) ==
    LET duplicates == DetectDuplicatesCall([checkVersions |-> TRUE,
                                            onlyVersionConflicts |-> FALSE],
                                           <<>>, tree, FALSE).summary.duplicates
    IN  UNION {Range(duplicates[i].instances) : i \in 1..Len(duplicates)}

\* the chain of every duplicate instance of the trees built for the plans
ChainCalls(plans) ==
    UNION {LET tree == BuildDependencyTreeFromLockData(r, ProjectFiles(r, plan), TRUE,
                                                       MaxDepthBound, "project")
           IN  {[fn |-> "buildDependencyTreeWithVersions", type |-> r, tree |-> tree,
                 instance |-> id] : id \in ReportedInstances(tree)} :
           r \in Routes, plan \in plans}

\* node names and versions of trees handed to the detector: a plain and a
\* scoped name; a plain version and a git version, which holds an "@"
ScopedName == <<At_, "types", Slash, "node">>

GitVersion == <<"git+ssh://git", At_, "host/repo.git">>

TreeNodes ==
    {NewNode(name, version, Len(path) + 1, Append(path, name), FALSE) :
        name \in {A, ScopedName}, version \in {V1, GitVersion}, path \in {<<>>, <<B>>}}

\* the DependencyTree of the given nodes, each listed in allNodes under
\* `${name}@${version}` as the builders do
RECURSIVE ListAll(_, _, _)
ListAll(nodes, allNodes, i) ==
    IF i > Len(nodes) THEN allNodes
    ELSE ListAll(nodes, Register(allNodes, CompositeKey(nodes[i].name, nodes[i].version), i),
                 i + 1)

TreeOf(nodes) ==
    [root |-> RootNode(<<"root">>, SelectSeq([i \in 1..Len(nodes) |-> i],
                                             LAMBDA i : nodes[i].path = <<>>)),
     nodes |-> nodes,
     allNodes |-> ListAll(nodes, <<>>, 1)]

PackageMapCalls(treeNodes) ==
    {[fn |-> "buildPackageMapFromTree", tree |-> TreeOf(nodes)] :
        nodes \in UNION {[1..n -> treeNodes] : n \in 1..2}}

\* @types/node depends on A@^2.0.0, installed nested under it; A 1.0.0 is hoisted
ScopedPlan ==
    [manifest |-> Manifest(<<"project">>,
                           <<Entry(ScopedName, CaretOf(V1)), Entry(A, CaretOf(V1))>>, <<>>),
     instances |-> <<Instance(ScopedName, V1, <<>>, <<Entry(A, CaretOf(V2))>>),
                     Instance(A, V1, <<>>, <<Entry(B, CaretOf(V1))>>),
                     Instance(A, V2, ScopedName, <<>>),
                     Instance(B, V1, <<>>, <<>>)>>]

\* the package-lock.json files whose packages table is parsed
ParseNpmLockCalls(plans) ==
    {[fn |-> "parseV2Packages", plan |-> plan, packages |-> NpmLockOf(plan).packages] :
        plan \in plans}

\* the direct dependencies A and B both depend on C, which depends on D
SharedPlan ==
    [manifest |-> Manifest(<<"project">>,
                           <<Entry(A, CaretOf(V1)), Entry(B, CaretOf(V1))>>, <<>>),
     instances |-> <<Instance(A, V1, <<>>, <<Entry(C, CaretOf(V1))>>),
                     Instance(B, V1, <<>>, <<Entry(C, CaretOf(V1))>>),
                     Instance(C, V1, <<>>, <<Entry(D, CaretOf(V1))>>),
                     Instance(D, V1, <<>>, <<>>)>>]

\* findPathsToPackage on the builder of an npm project, for every target
FindPathsToPackageCalls(plans) ==
    {[fn |-> "findPathsToPackage", plan |-> plan, targetPackage |-> target] :
        plan \in plans, target \in {A, B, C, D}}

\* the names a manifest section may declare: none, A, B, or both
DeclaredSections ==
    {<<>>, <<Entry(A, CaretOf(V1))>>, <<Entry(B, CaretOf(V1))>>,
     <<Entry(A, CaretOf(V1)), Entry(B, CaretOf(V1))>>}

\* A and B are installed and both depend on C; the manifest declares them in
\* dependencies and devDependencies as given
DevPlan(dependencies, devDependencies) ==
    [manifest |-> Manifest(<<"project">>, dependencies, devDependencies),
     instances |-> <<Instance(A, V1, <<>>, <<Entry(C, CaretOf(V1))>>),
                     Instance(B, V1, <<>>, <<Entry(C, CaretOf(V1))>>),
                     Instance(C, V1, <<>>, <<>>)>>]

\* buildDependencyTree(maxDepth, includeDevDependencies) of the bun and the
\* pnpm parser after parseAndNormalize of the plan's lock file
BuildTreeCalls(sections) ==
    {[fn |-> "buildDependencyTree", type |-> t,
      project |-> ProjectFiles(t, DevPlan(d, v)),
      maxDepth |-> m, includeDevDependencies |-> i] :
        t \in {"bun", "pnpm"}, d \in sections, v \in sections,
        m \in 1..MaxDepthBound, i \in BOOLEAN}

\* -------------------------------------------- LockFileParser.parseLockFile
\* the lock files in order of preference
LockFileOrder_BunFirst == <<"bun", "npm", "pnpm", "yarn">>

LockFileOrder == <<"npm", "bun", "pnpm", "yarn">>

\* NpmLockParser.parsePackageLock(lockPath) on a lockfileVersion 2/3 file
ParsePackageLock(file) ==
    [type |-> "npm", dependencies |-> ParseV2Packages(file.packages, <<>>)]

\* the dependencies of a bun package as DependencyInfo objects
ConvertBunDependencies(dependencies) ==
    [i \in 1..Len(dependencies) |->
        Entry(dependencies[i].k,
              [name |-> dependencies[i].k, version |-> dependencies[i].v,
               parentPath |-> <<>>, dependencies |-> <<>>])]

\* case 'bun': parseAndNormalize, then BunPackageInfo to DependencyInfo
ConvertBunData(bunData) ==
    [type |-> "bun",
     dependencies |->
        [i \in 1..Len(bunData.packages) |->
            Entry(bunData.packages[i].k,
                  [name |-> bunData.packages[i].v.name,
                   version |-> bunData.packages[i].v.version,
                   parentPath |-> <<>>,
                   dependencies |-> ConvertBunDependencies(bunData.packages[i].v.dependencies)])]]

\* case 'pnpm': parseAndNormalize, then PnpmPackageInfo to DependencyInfo
ConvertPnpmData(pnpmData) ==
    [type |-> "pnpm",
     dependencies |->
        [i \in 1..Len(pnpmData.packages) |->
            Entry(pnpmData.packages[i].k,
                  [name |-> pnpmData.packages[i].v.name,
                   version |-> pnpmData.packages[i].v.version,
                   parentPath |-> <<>>,
                   dependencies |-> <<>>])]]

\* YarnLockParser.parseYarnLock(lockPath): a file is its entries, each a key
\* "name@range" with its version; the name is the key up to its first "@"
ParseYarnLock(file) ==
    [type |-> "yarn",
     dependencies |->
        [i \in 1..Len(file.entries) |->
            Entry(file.entries[i].k,
                  [name |-> At(Split(file.entries[i].k, At_), 0),
                   version |-> file.entries[i].v,
                   parentPath |-> <<>>,
                   dependencies |-> <<>>])]]

\* the body of the try block throws: the file cannot be read or parsed, or
\* normalizeBunLockData throws
ParseThrows(type, file) ==
    \/ ~file.valid
    \/ type = "bun" /\ NormalizeBunLockDataThrows(file)

\* what the switch returns for the type
ParseAs(type, file) ==
    IF type = "npm" THEN ParsePackageLock(file)
    ELSE IF type = "bun" THEN ConvertBunData(NormalizeBunLockData(file))
    ELSE IF type = "pnpm" THEN ConvertPnpmData(NormalizePnpmLockData(file))
    ELSE ParseYarnLock(file)

\* the loop of parseLockFile from the i-th lock file on; disk[type] is the
\* file getEffectiveLockFilePath finds for the type, or null; tried lists the
\* types whose parser was run
RECURSIVE ParseLockFileFrom(_, _, _)
ParseLockFileFrom(disk, i, tried) ==
    IF i > Len(LockFileOrder) THEN [data |-> Null, tried |-> tried]
    ELSE LET type == LockFileOrder[i]
             effectiveLockPath == disk[type]
         IN  IF effectiveLockPath = Null THEN ParseLockFileFrom(disk, i + 1, tried)
             ELSE IF ParseThrows(type, effectiveLockPath[1])
             THEN ParseLockFileFrom(disk, i + 1, Append(tried, type))
             ELSE [data |-> Some(ParseAs(type, effectiveLockPath[1])),
                   tried |-> Append(tried, type)]

ParseLockFile(disk) == ParseLockFileFrom(disk, 1, <<>>)

\* a yarn.lock with two entries, and one that cannot be read
YarnFiles ==
    {[valid |-> TRUE,
      entries |-> <<Entry(A \o <<At_>> \o CaretOf(V1), V1),
                    Entry(B \o <<At_>> \o CaretOf(V1), V1)>>],
     InvalidFile}

\* parseLockFile on a project: each lock file is absent or one of the files
ParseLockFileCalls(npmFiles, bunFiles, pnpmFiles, yarnFiles) ==
    {[fn |-> "parseLockFile",
      disk |-> [npm |-> n, bun |-> b, pnpm |-> p, yarn |-> y]] :
        n \in {Null} \cup {Some(f) : f \in npmFiles},
        b \in {Null} \cup {Some(f) : f \in bunFiles},
        p \in {Null} \cup {Some(f) : f \in pnpmFiles},
        y \in {Null} \cup {Some(f) : f \in yarnFiles}}

\* the call made is one of these
Calls ==
    \/ call \in {Some(c) : c \in SatisfiesVersionCalls}
    \/ call \in {Some(c) : c \in FindPackageInLockCalls}
    \/ call \in {Some(c) : c \in BuildFromLockDataCalls}
    \/ call \in {Some(c) : c \in OnlyDevCalls(Names)}
    \/ call \in {Some(c) : c \in FindAllPathsCalls(Names)}
    \/ call \in {Some(c) : c \in MergeCalls(WorkspaceSections, RootSections)}
    \/ call \in {Some(c) : c \in PackageMapCalls(TreeNodes)}
    \/ call \in {Some(c) : c \in ParseLockFileCalls(
                                       {NpmLockOf(ChainPlan), InvalidFile},
                                       {BunLockOf(ChainPlan), InvalidFile} \cup MalformedBunFiles,
                                       {PnpmLockOf(ChainPlan), InvalidFile},
                                       YarnFiles)}
    \/ call \in {Some(c) : c \in BuildTreeCalls(DeclaredSections)}
    \/ call \in {Some(c) : c \in FindPathsToPackageCalls(GraphPlans \cup {SharedPlan, ChainPlan})}
    \/ call \in {Some(c) : c \in ParseNpmLockCalls({ScopedPlan, AncestorPlan, ChainPlan,
                                                      NestedFirstPlan, DiamondPlan(1)})}
    \/ call \in {Some(c) : c \in ChainCalls({AncestorPlan, ChainPlan, NestedFirstPlan}
                                               \cup {DiamondPlan(h) : h \in 1..2})}

InitCall ==
    /\ route = "none"
    /\ files = InvalidFile
    /\ parser = [parsed |-> "none", lockData |-> Null, root |-> Null]
    /\ built = [status |-> "none"]
    /\ detector = Null
    /\ summaries = <<>>
    /\ Calls
    /\ returned = Null
    /\ callers = <<>>

\* BunLockParser.satisfiesVersion(version, range)
SatisfiesVersionCall ==
    /\ call # Null /\ call[1].fn = "satisfiesVersion"
    /\ returned = Null
    /\ returned' = Some(SatisfiesVersion(Join(call[1].versionParts, Dot),
                                         call[1].prefix \o Join(call[1].rangeParts, Dot)))
    /\ UNCHANGED <<route, files, parser, built, detector, summaries, call, callers>>

\* BunLockParser.findPackageInLock / PnpmLockParser.findPackageInLock
FindPackageInLockCall ==
    /\ call # Null /\ call[1].fn = "findPackageInLock"
    /\ returned = Null
    /\ returned' = Some(IF call[1].parser = "bun"
                        THEN BunFindPackageInLock(call[1].lockData, call[1].packageName,
                                                  call[1].versionRange, call[1].parentPath)
                        ELSE PnpmFindPackageInLock(call[1].lockData, call[1].packageName,
                                                   call[1].versionRange))
    /\ UNCHANGED <<route, files, parser, built, detector, summaries, call, callers>>

\* one run of the call; returned collects the trees of the runs made so far
BuildFromLockDataCall ==
    /\ call # Null /\ call[1].fn = "buildDependencyTreeFromLockData"
    /\ LET runs == IF returned = Null THEN <<>> ELSE returned[1]
       IN  /\ Len(runs) < Len(call[1].cwds)
           /\ returned' = Some(Append(runs,
                   BuildDependencyTreeFromLockData(
                       call[1].type, call[1].project, call[1].includeDevDependencies,
                       call[1].maxDepth, call[1].cwds[Len(runs) + 1])))
    /\ UNCHANGED <<route, files, parser, built, detector, summaries, call, callers>>

\* NodeModulesAnalyzer.isOnlyDevDependencyFromLockFile
OnlyDevCall ==
    /\ call # Null /\ call[1].fn = "isOnlyDevDependencyFromLockFile"
    /\ returned = Null
    /\ returned' = Some(IsOnlyDevDependencyFromLockFile(
                            call[1].packageName, call[1].packageJson,
                            OnlyDevLockOf(call[1].shape, call[1].plan)))
    /\ UNCHANGED <<route, files, parser, built, detector, summaries, call, callers>>

\* NodeModulesAnalyzer.findAllPathsToPackage
FindAllPathsCall ==
    /\ call # Null /\ call[1].fn = "findAllPathsToPackage"
    /\ returned = Null
    /\ returned' = Some(FindAllPathsToPackage(
                            call[1].targetPackage, call[1].rootPackages,
                            OnlyDevLockOf(call[1].shape, call[1].plan), 1))
    /\ UNCHANGED <<route, files, parser, built, detector, summaries, call, callers>>

\* DependencyMerger.mergeDependencyObjects
MergeCall ==
    /\ call # Null /\ call[1].fn = "mergeDependencyObjects"
    /\ returned = Null
    /\ returned' = Some(MergeDependencyObjects(call[1].workspacePackage, call[1].rootPackage))
    /\ UNCHANGED <<route, files, parser, built, detector, summaries, call, callers>>

\* DuplicateDetector.buildDependencyTreeWithVersions for the instance's chain
ChainCall ==
    /\ call # Null /\ call[1].fn = "buildDependencyTreeWithVersions"
    /\ returned = Null
    /\ returned' = Some(ChainVersions(call[1].tree, call[1].tree.nodes[call[1].instance].path))
    /\ UNCHANGED <<route, files, parser, built, detector, summaries, call, callers>>

\* DuplicateDetector.buildPackageMapFromTree on a fresh detector
PackageMapCall ==
    /\ call # Null /\ call[1].fn = "buildPackageMapFromTree"
    /\ returned = Null
    /\ returned' = Some(BuildPackageMapFromTree(call[1].tree, <<>>, 1))
    /\ UNCHANGED <<route, files, parser, built, detector, summaries, call, callers>>

\* NpmLockParser.parseV2Packages and DependencyTreeBuilder.parseNpmV2Dependencies
\* on the packages table of a package-lock.json
ParseNpmLockCall ==
    /\ call # Null /\ call[1].fn = "parseV2Packages"
    /\ returned = Null
    /\ returned' = Some([dependencies |-> ParseV2Packages(call[1].packages, <<>>),
                         builder |-> ParseNpmV2Dependencies(
                                         call[1].packages,
                                         [packageVersions |-> <<>>,
                                          packageDependencies |-> <<>>])])
    /\ UNCHANGED <<route, files, parser, built, detector, summaries, call, callers>>

\* DependencyTreeBuilder.findPathsToPackage on a builder of the project
FindPathsToPackageCall ==
    /\ call # Null /\ call[1].fn = "findPathsToPackage"
    /\ returned = Null
    /\ returned' = Some(FindPathsToPackage(
                            NewDependencyTreeBuilder(call[1].plan.manifest,
                                                     NpmLockOf(call[1].plan), TRUE),
                            call[1].targetPackage))
    /\ UNCHANGED <<route, files, parser, built, detector, summaries, call, callers>>

\* BunLockParser / PnpmLockParser buildDependencyTree on the parsed lock file
BuildTreeCall ==
    /\ call # Null /\ call[1].fn = "buildDependencyTree"
    /\ returned = Null
    /\ returned' = Some(BuildDependencyTreeFromLockData(
                            call[1].type, call[1].project,
                            call[1].includeDevDependencies, call[1].maxDepth, "project"))
    /\ UNCHANGED <<route, files, parser, built, detector, summaries, call, callers>>

\* LockFileParser.parseLockFile(projectPath)
ParseLockFileCall ==
    /\ call # Null /\ call[1].fn = "parseLockFile"
    /\ returned = Null
    /\ returned' = Some(ParseLockFile(call[1].disk))
    /\ UNCHANGED <<route, files, parser, built, detector, summaries, call, callers>>

NextCall ==
    \/ ChainCall
    \/ ParseLockFileCall
    \/ BuildTreeCall
    \/ FindPathsToPackageCall
    \/ ParseNpmLockCall
    \/ PackageMapCall
    \/ SatisfiesVersionCall
    \/ FindPackageInLockCall
    \/ BuildFromLockDataCall
    \/ OnlyDevCall
    \/ FindAllPathsCall
    \/ MergeCall

CallSpec == InitCall /\ [][NextCall]_vars

\* ------------------------------ concurrent calls on one DuplicateDetector
\* detectDuplicates is async: a call runs to its await of
\* calculateSizesForAllNodes, where other callers run, and is resumed later.
\* The detector's fields (packageMap, rootDependencies, dependencyTree) are
\* the instance's, shared by all its calls.
ConcurrentTrees ==
    {BuildDependencyTreeFromLockData("bun", BunLockOf(plan), TRUE, MaxDepthBound, "project") :
        plan \in {ChainPlan, DiamondPlan(1), GraphPlan({<<1, 3>>, <<2, 3>>}, 2),
                  GraphPlan({<<1, 2>>, <<2, 3>>}, 2)}}

InitConcurrent ==
    /\ route = "bun"
    /\ files = InvalidFile
    /\ parser = [parsed |-> "none", lockData |-> Null, root |-> Null]
    /\ built = [status |-> "none"]
    /\ summaries = <<>>
    /\ call = Null
    /\ returned = Null
    /\ \E options \in DetectorOptions :
          detector = Some([options |-> options, packageMap |-> <<>>,
                           rootDependencies |-> {}, dependencyTree |-> Null])
    /\ \E t1 \in ConcurrentTrees, t2 \in ConcurrentTrees :
          /\ t1 # t2
          /\ callers = <<[tree |-> t1, pc |-> "start", summary |-> Null],
                         [tree |-> t2, pc |-> "start", summary |-> Null]>>

\* a summary with its instances read: every instance is the node object
ReadIn(nodes, summary) ==
    [summary EXCEPT !.duplicates =
        [g \in 1..Len(summary.duplicates) |->
            [summary.duplicates[g] EXCEPT !.instances =
                [j \in 1..Len(summary.duplicates[g].instances) |->
                    nodes[summary.duplicates[g].instances[j]]]]]]

\* detectDuplicates(tree, projectPath) from its start to the await: the
\* fields are cleared, this.dependencyTree is set, the package map is built
\* and calculateSizesForAllNodes is called
DetectBegin(i) ==
    /\ callers[i].pc = "start"
    /\ LET tree == callers[i].tree
           newMap == BuildPackageMapFromTree(tree, ClearPackageMap(detector[1].packageMap), 1)
           sized == [tree EXCEPT !.nodes = CalculateSizesForAllNodes(newMap, tree.nodes)]
       IN  /\ detector' = Some([detector[1] EXCEPT
                                   !.packageMap = newMap,
                                   !.rootDependencies = RootDependencies(tree),
                                   !.dependencyTree = Some(sized)])
           /\ callers' = [callers EXCEPT ![i] = [tree |-> sized, pc |-> "await",
                                                 summary |-> Null]]
    /\ UNCHANGED <<route, files, parser, built, summaries, call, returned>>

\* the call resumed after the await: analyzeDuplicates() on this.packageMap,
\* the statistics, and the summary returned
DetectResume(i) ==
    /\ callers[i].pc = "await"
    /\ LET nodes == detector[1].dependencyTree[1].nodes
           duplicates == AnalyzeDuplicates(detector[1].options, nodes, detector[1].packageMap)
       IN  callers' = [callers EXCEPT
                          ![i].pc = "done",
                          ![i].summary =
                              Some(ReadIn(nodes, SummaryOf(detector[1].packageMap, duplicates)))]
    /\ UNCHANGED <<route, files, parser, built, detector, summaries, call, returned>>

\* the two callers
CallerIds == {1, 2}

NextConcurrent ==
    \/ \E i \in CallerIds : DetectBegin(i)
    \/ \E i \in CallerIds : DetectResume(i)

ConcurrentSpec == InitConcurrent /\ [][NextConcurrent]_vars

\* ------------------------------------------------- reading a built tree
\* the nodes reachable from the given ones along children
RECURSIVE Reachable(_, _)
Reachable(nodes, ids) ==
    IF Len(ids) = 0 THEN {}
    ELSE {ids[1]} \cup Reachable(nodes, nodes[ids[1]].children) \cup Reachable(nodes, Tail(ids))

TreeIds(tree) == Reachable(tree.nodes, tree.root.children)

ListedIds(tree) == UNION {Range(tree.allNodes[i].v) : i \in 1..Len(tree.allNodes)}

Built == built.status = "ok"

\* the child of parent (a node, or the root) named name, 0 when there is none
ChildNamed(tree, children, name) ==
    IF \E i \in 1..Len(children) : tree.nodes[children[i]].name = name
    THEN children[CHOOSE i \in 1..Len(children) : tree.nodes[children[i]].name = name]
    ELSE 0

ChildNames(tree, children) == [i \in 1..Len(children) |-> tree.nodes[children[i]].name]

\* ------------------------------------------------------------------ claims

\* C1: after a build with maxDepth = N >= 1, on every route, every node of the
\* tree and every node listed in allNodes has depth <= N.
C1_DepthBounded ==
    Built => \A id \in TreeIds(built.tree) \cup ListedIds(built.tree) :
                built.tree.nodes[id].depth <= built.maxDepth

\* C1 witness: the bun chain A->B->C->D built with maxDepth 2: B sits at the
\* bound and its dependency C was cut off.
C1_Witness ==
    /\ Built /\ route = "bun" /\ files = BunLockOf(ChainPlan) /\ built.maxDepth = 2
    /\ Cardinality(TreeIds(built.tree)) = 2
    /\ \E id \in TreeIds(built.tree) : built.tree.nodes[id].depth = 2

\* C2: in every built tree no node's name occurs in its own path.
C2_NoSelfAncestry ==
    Built => \A id \in TreeIds(built.tree) \cup ListedIds(built.tree) :
                built.tree.nodes[id].name \notin Range(built.tree.nodes[id].path)

\* C2 witness: the lock data holds the cycle A -> B -> A and the tree was
\* built deep enough to meet the back edge.
C2_Witness ==
    /\ Built /\ files \in FilesOfPlan(CyclePlan) /\ built.maxDepth = MaxDepthBound
    /\ \E id \in TreeIds(built.tree) :
          built.tree.nodes[id].name = B /\ built.tree.nodes[id].path = <<A>>

\* where a node sits: two nodes at the same place in the tree are the same node
Place(node) == [name |-> node.name, version |-> node.version, path |-> node.path,
                depth |-> node.depth]

\* the <<key index, list index>> slots of allNodes that hold a node at place pl
SlotsOf(tree, pl) ==
    {<<i, j>> \in (1..Len(tree.allNodes)) \X (1..Len(tree.nodes)) :
        /\ j <= Len(tree.allNodes[i].v)
        /\ Place(tree.nodes[tree.allNodes[i].v[j]]) = pl}

RECURSIVE SumLengths(_, _)
SumLengths(allNodes, i) ==
    IF i > Len(allNodes) THEN 0 ELSE Len(allNodes[i].v) + SumLengths(allNodes, i + 1)

C4_CycleTerminates ==
    (Built /\ files \in FilesOfPlan(CyclePlan) /\ built.maxDepth >= 2) =>
        LET tree == built.tree
            a == ChildNamed(tree, tree.root.children, A)
            b == ChildNamed(tree, tree.nodes[a].children, B)
        IN  /\ ChildNames(tree, tree.root.children) = <<A>>
            /\ ChildNames(tree, tree.nodes[a].children) = <<B>>
            /\ tree.nodes[b].children = <<>>

\* C4 witness: the cyclic lock data was built, on the npm route.
C4_Witness ==
    /\ Built /\ route = "npm" /\ files = NpmLockOf(CyclePlan) /\ built.maxDepth >= 2
    /\ Cardinality(TreeIds(built.tree)) = 2

\* C5 (as claimed, every route): for the chain A->B->C->D with root dependency
\* A and maxDepth = 2, A has the single child B, B has depth 2 and no children.
C5_ChainCutAtTwo ==
    (Built /\ files \in FilesOfPlan(ChainPlan) /\ built.maxDepth = 2) =>
        LET tree == built.tree
            a == ChildNamed(tree, tree.root.children, A)
            b == ChildNamed(tree, tree.nodes[a].children, B)
        IN  /\ ChildNames(tree, tree.root.children) = <<A>>
            /\ ChildNames(tree, tree.nodes[a].children) = <<B>>
            /\ tree.nodes[b].depth = 2
            /\ tree.nodes[b].children = <<>>

DiamondPlans == {DiamondPlan(h) : h \in 1..2}

\* C6 (as claimed, every route): for the diamond app-a -> common-lib@^1.0.0,
\* app-b -> common-lib@^2.0.0, a build deep enough to reach common-lib followed
\* by detectDuplicates returns exactly one duplicate group, named common-lib,
\* with versions {1.0.0, 2.0.0} and exactly 2 instances, of paths [app-a] and
\* [app-b].
C6_DiamondOneGroup ==
    (Built /\ built.maxDepth >= 2 /\ \E plan \in DiamondPlans : files \in FilesOfPlan(plan)) =>
        \A s \in 1..Len(summaries) :
            LET duplicates == summaries[s].duplicates
            IN  /\ Len(duplicates) = 1
                /\ duplicates[1].name = CommonLib
                /\ Range(duplicates[1].versions) = {V1, V2}
                /\ Len(duplicates[1].instances) = 2
                /\ {built.tree.nodes[id].path : id \in Range(duplicates[1].instances)}
                       = {<<AppA>>, <<AppB>>}

\* a DuplicateSummary as its holder reads it: every instance is the node
\* object it refers to
ReadSummary(summary) ==
    [summary EXCEPT !.duplicates =
        [g \in 1..Len(summary.duplicates) |->
            [summary.duplicates[g] EXCEPT !.instances =
                [j \in 1..Len(summary.duplicates[g].instances) |->
                    built.tree.nodes[summary.duplicates[g].instances[j]]]]]]

\* C7: the summaries that consecutive detectDuplicates calls on one detector
\* return for the same tree are structurally equal: same counts, same groups
\* in the same order, same instances.
C7_DetectIdempotent ==
    \A i, j \in 1..Len(summaries) :
        ReadSummary(summaries[i]) = ReadSummary(summaries[j])

\* C7 witness: two calls were made on a tree with a duplicate group, by a
\* detector that had analysed a tree before.
C7_Witness ==
    /\ Len(summaries) >= 2
    /\ summaries[2].duplicatePackages >= 1
    /\ summaries[2].totalDuplicateInstances >= 2

\* the versions of a set of instances
VersionsOf(ids) == {built.tree.nodes[id].version : id \in ids}

\* the instances the policy of section 4.3 reports for a package name
Qualifying(options, ids) ==
    IF Cardinality(VersionsOf(ids)) >= 2 THEN ids
    ELSE IF options.onlyVersionConflicts THEN {}
    ELSE {id \in ids :
            \E other \in ids \ {id} :
                built.tree.nodes[other].version = built.tree.nodes[id].version}

\* the groups of a summary that report name
GroupsNamed(summary, name) ==
    {g \in 1..Len(summary.duplicates) : summary.duplicates[g].name = name}

\* C11: with checkVersions on, a package name of the package map is reported
\* exactly when it has >= 2 instances of which >= 2 qualify -- all of them
\* when they have >= 2 distinct versions, otherwise (and only without
\* onlyVersionConflicts) those of a version with >= 2 instances; it is
\* reported by one group, holding exactly the qualifying instances, whose
\* versions are exactly their distinct versions.
C11_DuplicatePolicy ==
    (detector # Null /\ Len(summaries) >= 1 /\ detector[1].options.checkVersions) =>
        \A s \in 1..Len(summaries), e \in 1..Len(detector[1].packageMap) :
            LET name == detector[1].packageMap[e].k
                ids == Range(detector[1].packageMap[e].v)
                expected == IF Len(detector[1].packageMap[e].v) >= 2
                            THEN Qualifying(detector[1].options, ids) ELSE {}
                groups == GroupsNamed(summaries[s], name)
            IN  IF Cardinality(expected) >= 2
                THEN /\ Cardinality(groups) = 1
                     /\ \A g \in groups :
                           LET group == summaries[s].duplicates[g]
                           IN  /\ Range(group.instances) = expected
                               /\ Len(group.instances) = Cardinality(expected)
                               /\ Range(group.versions) = VersionsOf(expected)
                               /\ Len(group.versions) = Cardinality(VersionsOf(expected))
                ELSE groups = {}

\* C11 witness: under onlyVersionConflicts a name with two instances of one
\* version went unreported.
C11_Witness ==
    /\ detector # Null /\ Len(summaries) >= 1
    /\ detector[1].options.checkVersions /\ detector[1].options.onlyVersionConflicts
    /\ \E e \in 1..Len(detector[1].packageMap) :
          /\ Len(detector[1].packageMap[e].v) >= 2
          /\ Cardinality(VersionsOf(Range(detector[1].packageMap[e].v))) = 1
          /\ GroupsNamed(summaries[1], detector[1].packageMap[e].k) = {}

\* C12 (as claimed): in every summary totalPackages is the number of distinct
\* composite keys name@version of tree.allNodes, duplicatePackages the number
\* of groups and totalDuplicateInstances the sum of the groups' instance
\* counts.
C12_SummaryCounts ==
    (Built /\ Len(summaries) >= 1) =>
        \A s \in 1..Len(summaries) :
            /\ summaries[s].totalPackages = Cardinality(Range(Keys(built.tree.allNodes)))
            /\ summaries[s].duplicatePackages = Len(summaries[s].duplicates)
            /\ summaries[s].totalDuplicateInstances = SumInstances(summaries[s].duplicates)

\* where a name sits in the package map's iteration order
PositionOf(packageMap, name) ==
    CHOOSE e \in 1..Len(packageMap) : packageMap[e].k = name

\* C13: the groups of a summary come in descending instance count, and groups
\* of equal count in the order their names entered the package map.
C13_SortedStable ==
    (detector # Null /\ Len(summaries) >= 1) =>
        \A s \in 1..Len(summaries) :
            LET duplicates == summaries[s].duplicates
            IN  \A g, h \in 1..Len(duplicates) :
                    g < h =>
                        \/ Len(duplicates[g].instances) > Len(duplicates[h].instances)
                        \/ /\ Len(duplicates[g].instances) = Len(duplicates[h].instances)
                           /\ PositionOf(detector[1].packageMap, duplicates[g].name)
                                  < PositionOf(detector[1].packageMap, duplicates[h].name)

\* C13 witness: a summary with two groups of equal instance count.
C13_Witness ==
    /\ detector # Null /\ Len(summaries) >= 1
    /\ \E g, h \in 1..Len(summaries[1].duplicates) :
          /\ g < h
          /\ Len(summaries[1].duplicates[g].instances)
                 = Len(summaries[1].duplicates[h].instances)

\* the n-th component of a version, absent past its end
Component(parts, n) == IF n <= Len(parts) THEN Some(parts[n]) ELSE Null

\* C14: satisfiesVersion(version, range) is true exactly when: for a range
\* starting with "^", the first dot-separated components of version and range
\* are equal; for a range starting with "~", the first two components are
\* equal; for any other range, version and range are the same string.
C14_SatisfiesVersion ==
    (call # Null /\ call[1].fn = "satisfiesVersion" /\ returned # Null) =>
        LET c == call[1]
        IN  returned[1] =
                IF c.prefix = <<Caret>>
                THEN Component(c.versionParts, 1) = Component(c.rangeParts, 1)
                ELSE IF c.prefix = <<Tilde>>
                THEN /\ Component(c.versionParts, 1) = Component(c.rangeParts, 1)
                     /\ Component(c.versionParts, 2) = Component(c.rangeParts, 2)
                ELSE c.versionParts = c.rangeParts

\* C14 witness: 1.2.1 was matched against ~1.2.2 and accepted.
C14_Witness ==
    /\ call # Null /\ call[1].fn = "satisfiesVersion"
    /\ call[1].prefix = <<Tilde>>
    /\ call[1].versionParts = <<<<"1">>, <<"2">>, <<"1">>>>
    /\ call[1].rangeParts = <<<<"1">>, <<"2">>, <<"2">>>>
    /\ returned = Some(TRUE)

\* an entry that answers a lookup: its name is the one asked for and its
\* resolved version satisfies the range
Answers(entry, c) ==
    entry.v.name = c.packageName /\ SatisfiesVersion(entry.v.version, c.versionRange)

\* the index of the entry the lookup is specified to return, 0 for none
SpecifiedEntry(c) ==
    LET packages == c.lockData.packages
        nested == {i \in 1..Len(packages) :
                      /\ Len(c.parentPath) > 0
                      /\ packages[i].k = c.parentPath[Len(c.parentPath)] \o <<Slash>>
                                             \o c.packageName
                      /\ Answers(packages[i], c)}
        global == {i \in 1..Len(packages) : Answers(packages[i], c)}
    IN  IF nested # {} THEN CHOOSE i \in nested : TRUE
        ELSE IF global # {} THEN CHOOSE i \in global : \A j \in global : i <= j
        ELSE 0

\* C15 (as claimed, bun and pnpm): findPackageInLock returns the entry keyed
\* as nested under the last element of the context path when that entry
\* answers the lookup; otherwise the first entry in iteration order whose name
\* matches and whose version satisfies the range; otherwise null.
C15_FindPackageInLock ==
    (call # Null /\ call[1].fn = "findPackageInLock" /\ returned # Null) =>
        LET i == SpecifiedEntry(call[1])
        IN  returned[1] = IF i = 0 THEN Null ELSE Some(call[1].lockData.packages[i].v)

\* a package value of the form [name@version, resolution, info, ...]
WellFormed(value) ==
    /\ value.isArray
    /\ Len(value.items) >= 3
    /\ IsString(value.items[1])
    /\ \E name \in {A, B, C, D}, version \in {V1, V2} :
          value.items[1] = CompositeKey(name, version)

\* C16 (as claimed): a bun.lock of valid syntax with one malformed package
\* entry (not an array, fewer than 3 elements, or a first element that is not
\* a name@version string) is parsed successfully, and every well-formed entry
\* is in the normalized packages under its key, with its name and version.
C16_MalformedSkipped ==
    (route = "bun" /\ files \in MalformedBunFiles /\ parser.parsed # "none") =>
        /\ parser.parsed = "ok"
        /\ \A i \in 1..Len(files.packages) :
              WellFormed(files.packages[i].v) =>
                  /\ Has(parser.lockData[1].packages, files.packages[i].k)
                  /\ CompositeKey(Get(parser.lockData[1].packages, files.packages[i].k).name,
                                  Get(parser.lockData[1].packages, files.packages[i].k).version)
                         = files.packages[i].v.items[1]
        /\ ~Has(parser.lockData[1].packages, <<"bad">>)

\* C17 (as claimed, every route): two runs of buildDependencyTreeFromLockData
\* on equal lock data, manifest, includeDevDependencies and depth limit return
\* structurally equal trees, whatever directory the process is in.
C17_BuildIsPure ==
    (call # Null /\ call[1].fn = "buildDependencyTreeFromLockData"
                 /\ returned # Null /\ Len(returned[1]) = 2) =>
        returned[1][1] = returned[1][2]

\* the summary a call on tree alone returns
SoloSummary(options, tree) ==
    LET alone == DetectDuplicatesCall(options, <<>>, tree, TRUE)
    IN  ReadIn(alone.nodes, alone.summary)

\* C18 (as claimed): when two detectDuplicates calls with different trees on
\* one detector are interleaved at their awaits, each returns the summary
\* computed from its own tree.
C18_NoSharedState ==
    \A i \in 1..Len(callers) :
        callers[i].pc = "done" =>
            callers[i].summary = Some(SoloSummary(detector[1].options, callers[i].tree))

\* a manifest with exactly one direct dependency, which has no dependencies
IsSolo(plan) ==
    LET direct == plan.manifest.dependencies \o plan.manifest.devDependencies
    IN  /\ Len(direct) = 1
        /\ \A i \in 1..Len(plan.instances) :
               plan.instances[i].name = direct[1].k => plan.instances[i].deps = <<>>

SoloPlans == {plan \in DetectPlans : IsSolo(plan)}

\* C19: on a project whose manifest has exactly one direct dependency, itself
\* without dependencies, every summary detectDuplicates returns, under each
\* duplicate policy, has duplicatePackages = 0, no duplicates and
\* totalDuplicateInstances = 0
C19_SoloNoDuplicates ==
    \A plan \in SoloPlans :
        files \in FilesOfPlan(plan) =>
            \A i \in 1..Len(summaries) :
                /\ summaries[i].duplicatePackages = 0
                /\ summaries[i].duplicates = <<>>
                /\ summaries[i].totalDuplicateInstances = 0

\* a summary was returned for such a project whose tree holds the dependency
C19_Witness ==
    /\ \E plan \in SoloPlans : files \in FilesOfPlan(plan)
    /\ built.status = "ok"
    /\ Len(built.tree.root.children) = 1
    /\ detector # Null /\ ~detector[1].options.checkVersions
    /\ Len(summaries) >= 1

\* the dependency edges of the lock an isOnlyDevDependencyFromLockFile call is
\* given: a -> b when the lock's entry of a lists b as a dependency
LockEdges(c) ==
    IF c.shape = "none" THEN {}
    ELSE UNION {{<<c.plan.instances[i].name, c.plan.instances[i].deps[j].k>> :
                    j \in 1..Len(c.plan.instances[i].deps)} :
                i \in 1..Len(c.plan.instances)}

\* the names reachable from the names of S along edges
RECURSIVE ReachableNames(_, _)
ReachableNames(edges, S) ==
    LET next == S \cup {e[2] : e \in {d \in edges : d[1] \in S}}
    IN  IF next = S THEN S ELSE ReachableNames(edges, next)

\* C20: isOnlyDevDependencyFromLockFile(p, manifest, lock) is true when p is
\* declared in devDependencies, false when p is declared in dependencies only,
\* and otherwise true exactly when p is reachable along the lock's dependency
\* edges from a devDependency and from no production dependency
C20_OnlyDevDependency ==
    (call # Null /\ call[1].fn = "isOnlyDevDependencyFromLockFile" /\ returned # Null) =>
        LET c == call[1]
            dev == Range(Keys(c.packageJson.devDependencies))
            prod == Range(Keys(c.packageJson.dependencies))
        IN  returned[1] =
                IF c.packageName \in dev THEN TRUE
                ELSE IF c.packageName \in prod THEN FALSE
                ELSE /\ c.packageName \in ReachableNames(LockEdges(c), dev)
                     /\ c.packageName \notin ReachableNames(LockEdges(c), prod)

\* the sequences of distinct names, of every length
SimpleSequences ==
    {s \in UNION {[1..n -> Range(Names)] : n \in 1..Len(Names)} :
        \A i \in 1..Len(s) : \A j \in 1..Len(s) : i # j => s[i] # s[j]}

\* the simple paths from a root to the target along the edges
SimplePaths(edges, roots, target) ==
    {s \in SimpleSequences :
        /\ s[1] \in roots
        /\ s[Len(s)] = target
        /\ \A i \in 1..(Len(s) - 1) : <<s[i], s[i + 1]>> \in edges}

\* C21: findAllPathsToPackage(target, roots, lock) returns, each once, exactly
\* the paths without a repeated package that start at a root, follow the
\* lock's dependency edges and end at target, on cyclic graphs too; a root
\* that is the target gives the path [target]
C21_AllSimplePaths ==
    (call # Null /\ call[1].fn = "findAllPathsToPackage" /\ returned # Null) =>
        LET c == call[1]
            paths == SimplePaths(LockEdges(c), Range(c.rootPackages), c.targetPackage)
        IN  /\ Range(returned[1]) = paths
            /\ Len(returned[1]) = Cardinality(paths)
            /\ c.targetPackage \in Range(c.rootPackages) => <<c.targetPackage>> \in paths

\* paths were returned on a cyclic graph: one of three packages, and the root
\* itself as a path
C21_Witness ==
    /\ call # Null /\ call[1].fn = "findAllPathsToPackage" /\ returned # Null
    /\ {<<A, B>>, <<B, A>>, <<B, C>>} \subseteq LockEdges(call[1])
    /\ call[1].shape = "bun"
    /\ <<A, B, C>> \in Range(returned[1])
    /\ <<C>> \in Range(returned[1])

\* the dependency sections of a package.json
Sections == {"dependencies", "devDependencies", "peerDependencies", "optionalDependencies"}

\* the entries of a section as a set of <<name, range>>, none when undefined
Declarations(section) ==
    IF section = Null THEN {} ELSE {<<section[1][i].k, section[1][i].v>> : i \in 1..Len(section[1])}

\* C22: mergeDependencyObjects gives every section the union of the workspace
\* root's and the workspace package's entries, with the package's range for a
\* name both declare, and leaves a section that has no entry in either undefined
C22_MergeSections ==
    (call # Null /\ call[1].fn = "mergeDependencyObjects" /\ returned # Null) =>
        \A s \in Sections :
            LET own == Declarations(call[1].workspacePackage[s])
                root == Declarations(call[1].rootPackage[s])
                union == own \cup {d \in root : \A o \in own : o[1] # d[1]}
            IN  /\ Declarations(returned[1][s]) = union
                /\ returned[1][s] # Null =>
                       Len(returned[1][s][1]) = Cardinality(union)
                /\ returned[1][s] = Null <=> union = {}

\* a merge in which both declare A in dependencies, and devDependencies are
\* an empty object in the package and missing in the root
C22_Witness ==
    /\ call # Null /\ call[1].fn = "mergeDependencyObjects" /\ returned # Null
    /\ \E d \in Declarations(call[1].workspacePackage.dependencies) :
           d[1] = A /\ <<A, CaretOf(V1)>> \in Declarations(call[1].rootPackage.dependencies)
    /\ call[1].workspacePackage.devDependencies = Some(<<>>)
    /\ call[1].rootPackage.devDependencies = Null
    /\ returned[1].devDependencies = Null

\* the dependency edges of a plan: a -> b when an instance of a depends on b
PlanEdges(plan) ==
    UNION {{<<plan.instances[i].name, plan.instances[i].deps[j].k>> :
               j \in 1..Len(plan.instances[i].deps)} :
           i \in 1..Len(plan.instances)}

\* a node for the path is reachable from the root, and one is listed in allNodes
HasNodeAt(tree, s) ==
    \A ids \in {TreeIds(tree), ListedIds(tree)} :
        \E id \in ids :
            /\ tree.nodes[id].name = s[Len(s)]
            /\ tree.nodes[id].path = ButLast(s)

\* C23: when a package is reachable from the root dependencies along two
\* different acyclic ancestor paths within maxDepth, every entry resolvable,
\* the built tree has a node for each of the paths, listed in allNodes, on
\* every route
C23_DistinctPathsKept ==
    built.status = "ok" =>
        \A plan \in GraphPlans :
            files = ProjectFiles(route, plan) =>
                \A n \in 1..Len(Names) :
                    LET roots == Range(Keys(plan.manifest.dependencies))
                        paths == {s \in SimplePaths(PlanEdges(plan), roots, Names[n]) :
                                     Len(s) <= built.maxDepth}
                    IN  Cardinality(paths) >= 2 =>
                            \A s \in paths : HasNodeAt(built.tree, s)

\* the nodes listed in allNodes with the name and the path
NodesAt(tree, name, path) ==
    {id \in ListedIds(tree) : tree.nodes[id].name = name /\ tree.nodes[id].path = path}

\* C24: for a duplicate instance, the version shown for the ancestor at
\* position i of its path is the version of the node of that name whose own
\* path is the first i - 1 names of the instance's path; when there is no such
\* node it is a version of that name known in the tree, or unknown when the
\* name is not in the tree
C24_AncestorVersions ==
    (call # Null /\ call[1].fn = "buildDependencyTreeWithVersions" /\ returned # Null) =>
        LET tree == call[1].tree
            path == tree.nodes[call[1].instance].path
        IN  \A i \in 1..Len(path) :
                LET own == NodesAt(tree, path[i], SubSeq(path, 1, i - 1))
                    named == {id \in TreeIds(tree) \cup ListedIds(tree) :
                                 tree.nodes[id].name = path[i]}
                IN  IF own # {} THEN \E id \in own : returned[1][i] = tree.nodes[id].version
                    ELSE IF named # {}
                    THEN \E id \in named : returned[1][i] = tree.nodes[id].version
                    ELSE returned[1][i] = <<"unknown">>

\* the names a plan makes the instance name@version depend on
DependenciesIn(plan, name, version) ==
    UNION {IF plan.instances[i].name = name /\ plan.instances[i].version = version
           THEN Range(Keys(plan.instances[i].deps)) ELSE {} :
           i \in 1..Len(plan.instances)}

\* every node above the depth limit has as children its dependencies that
\* are not on its own path
ChildrenAreDependencies(tree, plan, maxDepth) ==
    \A id \in TreeIds(tree) :
        LET node == tree.nodes[id]
        IN  node.depth < maxDepth =>
                Range(ChildNames(tree, node.children)) =
                    DependenciesIn(plan, node.name, node.version)
                        \ (Range(node.path) \cup {node.name})

\* C25: on the pnpm route a node's children are the dependencies of the
\* matching snapshot when the lock file has a snapshots table, and the
\* package's own dependencies and peerDependencies when it has none
C25_PnpmEdges ==
    (route = "pnpm" /\ built.status = "ok") =>
        \A plan \in GraphPlans \cup SnapshotlessPlans :
            files \in {PnpmLockOf(plan), SnapshotlessPnpmLockOf(plan)} =>
                ChildrenAreDependencies(built.tree, plan, built.maxDepth)

\* what identifies an instance
Identity(node) == <<node.name, node.version, node.path>>

\* C26: after buildPackageMapFromTree every node listed in allNodes is stored
\* under the package-map key that is its own name, for plain and scoped names
\* and versions that hold an "@", and no name stores two instances of the same
\* name, version and path
C26_GroupedByName ==
    (call # Null /\ call[1].fn = "buildPackageMapFromTree" /\ returned # Null) =>
        LET tree == call[1].tree
            packageMap == returned[1]
        IN  /\ \A id \in ListedIds(tree) :
                   \E i \in 1..Len(packageMap) :
                       /\ packageMap[i].k = tree.nodes[id].name
                       /\ \E j \in 1..Len(packageMap[i].v) :
                              Identity(tree.nodes[packageMap[i].v[j]]) = Identity(tree.nodes[id])
            /\ \A i \in 1..Len(packageMap) :
                   \A j \in 1..Len(packageMap[i].v) : \A k \in 1..Len(packageMap[i].v) :
                       j # k => Identity(tree.nodes[packageMap[i].v[j]])
                                    # Identity(tree.nodes[packageMap[i].v[k]])

\* the packages key npm writes for an instance of a plan
NpmKeyOf(p) ==
    IF p.parent = <<>> THEN <<"node_modules", Slash>> \o p.name
    ELSE <<"node_modules", Slash>> \o p.parent \o <<Slash, "node_modules", Slash>> \o p.name

\* C27: the entry recorded for an npm v2/v3 packages key is the package
\* installed at that path: node_modules/X/node_modules/Y is recorded with name
\* Y and parent chain [X], a scoped X counting as one name, and the version
\* and dependency list recorded for a top-level package are its own
C27_NpmPathKeys ==
    (call # Null /\ call[1].fn = "parseV2Packages" /\ returned # Null) =>
        \A i \in 1..Len(call[1].plan.instances) :
            LET p == call[1].plan.instances[i]
                recorded == Get(returned[1].dependencies, NpmKeyOf(p))
            IN  /\ recorded.name = p.name
                /\ recorded.version = p.version
                /\ recorded.parentPath = (IF p.parent = <<>> THEN <<>> ELSE <<p.parent>>)
                /\ p.parent = <<>> =>
                       /\ Get(returned[1].builder.packageVersions, p.name) = p.version
                       /\ Get(returned[1].builder.packageDependencies, p.name) = Keys(p.deps)

\* C28: findPathsToPackage(target) returns, for every root dependency from
\* which target is reachable along the recorded dependency edges, a path that
\* starts at that root and ends at target, whatever roots were searched before
C28_PathFromEveryRoot ==
    (call # Null /\ call[1].fn = "findPathsToPackage" /\ returned # Null) =>
        \A r \in Range(Keys(call[1].plan.manifest.dependencies)) :
            call[1].targetPackage \in ReachableNames(PlanEdges(call[1].plan), {r}) =>
                \E i \in 1..Len(returned[1]) :
                    /\ returned[1][i][1] = r
                    /\ returned[1][i][Len(returned[1][i])] = call[1].targetPackage

\* C29: a tree built with includeDevDependencies = false has no node with
\* isDevDependency = true, also when a name is declared in both dependencies
\* and devDependencies; and every node carries the isDevDependency flag of the
\* direct dependency it descends from
C29_DevFlags ==
    (call # Null /\ call[1].fn = "buildDependencyTree" /\ returned # Null) =>
        LET tree == returned[1]
        IN  \A id \in TreeIds(tree) :
                /\ ~call[1].includeDevDependencies => ~tree.nodes[id].isDevDependency
                /\ \A d \in Range(tree.root.children) :
                       tree.nodes[d].name = Append(tree.nodes[id].path, tree.nodes[id].name)[1] =>
                           tree.nodes[id].isDevDependency = tree.nodes[d].isDevDependency

\* a lock file of the type is on disk and its parser does not throw on it
ExistsAndParses(disk, type) ==
    disk[type] # Null /\ disk[type][1].valid
        /\ ~(type = "bun" /\ NormalizeBunLockDataThrows(disk[type][1]))

\* C30: parseLockFile tries package-lock.json, bun.lock, pnpm-lock.yaml and
\* yarn.lock in that order and returns the data of the first that exists and
\* parses; a lock file that fails to parse does not end the call, the next
\* type is tried; null is returned exactly when no lock file exists and parses
C30_FirstParsingLockFile ==
    (call # Null /\ call[1].fn = "parseLockFile" /\ returned # Null) =>
        LET order == <<"npm", "bun", "pnpm", "yarn">>
            disk == call[1].disk
            parsing == {i \in 1..4 : ExistsAndParses(disk, order[i])}
        IN  /\ returned[1].data = Null <=> parsing = {}
            /\ parsing # {} =>
                  LET first == CHOOSE i \in parsing : \A j \in parsing : i <= j
                  IN  /\ returned[1].data[1].type = order[first]
                      /\ returned[1].data[1] = ParseAs(order[first], disk[order[first]][1])
                      /\ returned[1].tried =
                            SelectSeq(SubSeq(order, 1, first), LAMBDA t : disk[t] # Null)
            /\ parsing = {} =>
                  returned[1].tried = SelectSeq(order, LAMBDA t : disk[t] # Null)

\* package-lock.json is there but fails to parse, bun.lock is absent, and the
\* data of pnpm-lock.yaml was returned although a yarn.lock is there too
C30_Witness ==
    /\ call # Null /\ call[1].fn = "parseLockFile" /\ returned # Null
    /\ call[1].disk.npm # Null /\ ~ExistsAndParses(call[1].disk, "npm")
    /\ call[1].disk.bun = Null
    /\ ExistsAndParses(call[1].disk, "yarn")
    /\ returned[1].data # Null /\ returned[1].data[1].type = "pnpm"
    /\ returned[1].tried = <<"npm", "pnpm">>

\* C8 (as claimed, every route): every non-root node has
\* depth = path.length + 1.
C8_DepthIsPathLengthPlusOne ==
    Built => \A id \in TreeIds(built.tree) \cup ListedIds(built.tree) :
                built.tree.nodes[id].depth = Len(built.tree.nodes[id].path) + 1

UnresolvedPlans == {UnresolvedPlan(m, d) : m \in 1..2, d \in BOOLEAN}

\* C9 (as claimed, every route): C, for which no lock entry matches
\* (C, ^1.0.0), gets no node, neither in the tree nor in allNodes, and its
\* siblings are still built: A at the root, B under A.
C9_UnresolvedPruned ==
    (Built /\ built.maxDepth >= 2
           /\ \E plan \in UnresolvedPlans : files \in FilesOfPlan(plan)) =>
        LET tree == built.tree
            a == ChildNamed(tree, tree.root.children, A)
        IN  /\ \A id \in TreeIds(tree) \cup ListedIds(tree) : tree.nodes[id].name # C
            /\ a # 0
            /\ ChildNamed(tree, tree.nodes[a].children, B) # 0

\* C10 (as claimed): a buildDependencyTree call throws exactly when
\* parseAndNormalize has not succeeded on that parser before it.
C10_ThrowsIffNotParsed ==
    [][(route \in {"bun", "pnpm"} /\ built' # built) =>
          (built'.status = "threw" <=> parser.parsed # "ok")]_vars

====
